---- MODULE Spec2Model ----
(***************************************************************************)
(* Kidney-stone analysis pipeline of the GemmaStone backend:               *)
(*   backend/app/workflows/kidney_stone.py   the seven workflow nodes      *)
(*   backend/app/services/lab_refresh.py     the lab-triggered re-run      *)
(*   backend/app/services/lab_validation.py  the lab payload validator     *)
(*   backend/app/api/routes/labs.py          lab POST / PATCH handlers     *)
(*   backend/app/api/routes/ct_analysis.py   the /analyze handler          *)
(*                                                                         *)
(* Conventions.                                                            *)
(*  - A Python dict is a function whose DOMAIN is the set of keys present. *)
(*    Every reader in the modelled code uses dict.get, so a key bound to   *)
(*    None and an absent key cannot be told apart: None is absence.        *)
(*  - Lengths are whole millimetres, volumes whole mm3, densities whole    *)
(*    HU, confidences hundredths (0.9 is 90), urine pH tenths (5.5 is 55). *)
(*  - Strings are atomic; the substring tests the code makes on them are   *)
(*    tabulated by Words (the keywords a lower-cased text contains).       *)
(***************************************************************************)
EXTENDS FiniteSets, Integers, Sequences, TLC

VARIABLES
    pc,            \* position of the /analyze request and of its workflow run
    state,         \* KidneyStoneState of the workflow run
    visited,       \* nodes the compiled workflow has entered, in order
    perception,    \* outcome of medgemma_client.analyze_ct in this run
    request,       \* the lab payloads the /analyze request supplied or fetched
    db,            \* the tables: analysis (empty dict: none), labs, plans, campaigns, nudges
    refreshed,     \* state returned by the last refresh_analysis_with_labs (empty dict: none)
    rerun_visited, \* nodes the last refresh_analysis_with_labs ran, in order
    ops            \* number of lab API calls handled so far

vars == <<pc, state, visited, perception, request, db, refreshed, rerun_visited, ops>>

----------------------------------------------------------------------------
(* Bounds of the model *)

MaxStones == 2
MaxLabOps == 2
MaxRawStones == 1
MaxSlices == 3

----------------------------------------------------------------------------
(* Python dict, list and set helpers *)

EmptyDict == [k \in {} |-> 0]

Has(d, k) == k \in DOMAIN d

Put(d, k, v) == (k :> v) @@ d

\* {**d, **e}
Merge(d, e) == e @@ d

Drop(d, k) == [x \in DOMAIN d \ {k} |-> d[x]]

\* Builds a dict from a total choice f over keys, leaving out the keys chosen as absent.
DictOf(f, absent) == [k \in {k \in DOMAIN f : f[k] # absent} |-> f[k]]

SeqsUpTo(S, n) == UNION {[1..m -> S] : m \in 0..n}

Range(s) == {s[i] : i \in DOMAIN s}

Max(a, b) == IF a >= b THEN a ELSE b

Min(a, b) == IF a <= b THEN a ELSE b

----------------------------------------------------------------------------
(* Python None, for string-valued and for number-valued lookups *)

None == "None"

NoneNum == 0 - 1

Get(d, k) == IF Has(d, k) THEN d[k] ELSE None

GetNum(d, k) == IF Has(d, k) THEN d[k] ELSE NoneNum

\* bool(d.get(k)) for a flag
Truthy(d, k) == Has(d, k) /\ d[k] = TRUE

----------------------------------------------------------------------------
(* Substring tests: the keywords that text.lower() contains, for every     *)
(* string the model feeds to the pipeline.                                 *)

Words(text) ==
    CASE text = "kidney_upper" -> {"kidney", "upper"}
      [] text = "kidney_lower" -> {"kidney", "lower"}
      [] text = "proximal_ureter" -> {"proximal", "ureter"}
      [] text = "distal_ureter" -> {"distal", "ureter"}
      [] text = "Left Kidney Lower Pole" -> {"kidney", "lower"}
      [] text = "mid ureter" -> {"ureter"}
      [] text = "upper ureter" -> {"upper", "upper ureter", "ureter"}
      [] text = "lower ureter" -> {"lower", "lower ureter", "ureter"}
      [] text = "renal pelvis" -> {}
      [] text = "staghorn" -> {"staghorn"}
      [] text = "Partial Staghorn" -> {"staghorn"}
      [] text = "round" -> {}
      [] text = "struvite" -> {"struvite"}
      [] text = "Calcium Oxalate Monohydrate" -> {"oxalate"}
      [] text = "calcium phosphate" -> {"phosphate"}
      [] text = "uric acid" -> {"uric"}
      [] text = "cystine" -> {"cystine"}
      [] text = "mixed uric acid / calcium oxalate" -> {"mixed", "uric", "oxalate"}
      [] text = "brushite" -> {}
      [] text = "crystallography" -> {"crystal"}
      [] text = "Crystallography" -> {"crystal"}
      [] text = "urine_24hr" -> {"urine", "24"}
      [] text = "Urine 24h" -> {"urine", "24"}
      [] text = "blood_panel" -> {}
      [] OTHER -> {}

\* str(raw).strip().lower() on the hydronephrosis grades the model uses
StripLower(text) ==
    CASE text = "Severe" -> "severe"
      [] text = " moderate " -> "moderate"
      [] OTHER -> text

\* value.strip() is empty
Blank(text) == text \in {"", " "}

----------------------------------------------------------------------------
(* Treatment decision engine: kidney_stone.py *)

STONE_TYPE_UNKNOWN == "unknown"

HYDRONEPHROSIS_RANK == [none |-> 0, mild |-> 1, moderate |-> 2, severe |-> 3]

\* pi as the rational PiNum / PiDen (355/113): exact enough to order every
\* whole-mm3 volume against the 15, 20 and 30 mm sphere-equivalent thresholds
\* the way 3.141592653589793 orders it.
PiNum == 355

PiDen == 113

\* The volume compared with that of the cube of side d instead of the sphere of diameter d
VolumeOfCubeAtLeast(volume_mm3, d) ==
    /\ volume_mm3 > 0
    /\ volume_mm3 >= d * d * d

\* _equivalent_diameter_mm(volume_mm3) is not None and >= d
EqDiameterAtLeast(volume_mm3, d) ==
    /\ volume_mm3 > 0
    /\ 6 * volume_mm3 * PiDen >= d * d * d * PiNum

stone_size_mm(stone) == IF Has(stone, "size_mm") THEN stone["size_mm"] ELSE 0

\* max(stones, key=size): the first stone of maximal size
identify_primary_stone(stones) ==
    LET best == CHOOSE i \in DOMAIN stones :
                    /\ \A j \in DOMAIN stones : stone_size_mm(stones[j]) <= stone_size_mm(stones[i])
                    /\ \A j \in 1..(i - 1) : stone_size_mm(stones[j]) < stone_size_mm(stones[i])
    IN  stones[best]

normalize_location(location) ==
    IF location = None \/ location = "" THEN "kidney_upper"
    ELSE LET loc == Words(location) IN
         IF "upper" \in loc /\ "kidney" \in loc THEN "kidney_upper"
         ELSE IF "lower" \in loc /\ "kidney" \in loc THEN "kidney_lower"
         ELSE IF "proximal" \in loc \/ "upper ureter" \in loc THEN "proximal_ureter"
         ELSE IF "distal" \in loc \/ "lower ureter" \in loc THEN "distal_ureter"
         ELSE IF "ureter" \in loc THEN "proximal_ureter"
         ELSE "kidney_upper"

\* A test for the bare word instead of the substring
is_ureteral_exact(location) == location = "ureter"

is_ureteral(location) == "ureter" \in Words(location)

is_lower_pole(location) == location = "kidney_lower"

\* A test of the location text instead of the shape
is_staghorn_by_location(stone) == "staghorn" \in Words(Get(stone, "location"))

is_staghorn(stone) == "staghorn" \in Words(Get(stone, "shape"))

\* The uric-acid override applied to every composition
adjust_for_any_composition(treatment, composition, size_mm) ==
    IF size_mm < 15 THEN "medical_expulsive"
    ELSE IF composition = "struvite" /\ size_mm > 10 THEN "pcnl"
    ELSE treatment

adjust_for_composition(treatment, composition, size_mm) ==
    IF composition = "uric_acid" /\ size_mm < 15 THEN "medical_expulsive"
    ELSE IF composition = "struvite" /\ size_mm > 10 THEN "pcnl"
    ELSE treatment

\* The verdict of one iteration of the loop of _assess_urgency, None to go on
StoneUrgency(stone) ==
    IF Get(stone, "hydronephrosis") = "severe" THEN "emergent"
    ELSE IF Truthy(stone, "complete_obstruction") THEN "emergent"
    ELSE IF Truthy(stone, "obstruction") THEN "urgent"
    ELSE None

SumSizes(stones) ==
    LET RECURSIVE Sum(_)
        Sum(i) == IF i = 0 THEN 0 ELSE Sum(i - 1) + stone_size_mm(stones[i])
    IN  Sum(Len(stones))

assess_urgency(stones, total_burden_mm3, hydronephrosis_level) ==
    LET hits == {i \in DOMAIN stones : StoneUrgency(stones[i]) # None} IN
    IF hits # {}
    THEN StoneUrgency(stones[CHOOSE i \in hits : \A j \in hits : i <= j])
    ELSE IF hydronephrosis_level = "severe" THEN "emergent"
    ELSE IF hydronephrosis_level = "moderate" THEN "urgent"
    ELSE IF total_burden_mm3 # NoneNum
         THEN IF EqDiameterAtLeast(total_burden_mm3, 30) THEN "urgent" ELSE "routine"
         ELSE IF SumSizes(stones) > 30 THEN "urgent" ELSE "routine"

MaxOver(S) == CHOOSE m \in S : \A x \in S : x <= m

\* Ureteral bands in which a distal stone of any size gets medical expulsive therapy
choose_treatment_distal_any_size(stones, composition, total_burden_mm3, hydronephrosis_level) ==
    LET max_size == stone_size_mm(identify_primary_stone(stones))
        \* eq_diameter is None unless the burden is truthy and positive
        has_eq == total_burden_mm3 # NoneNum /\ total_burden_mm3 > 0
        eq_at_least(d) == has_eq /\ EqDiameterAtLeast(total_burden_mm3, d)
        ureteral == {i \in DOMAIN stones :
                        is_ureteral(normalize_location(Get(stones[i], "location")))}
        \* renal = [s for s in stones if s not in ureteral]: list membership is by value
        renal == {i \in DOMAIN stones : \A j \in ureteral : stones[i] # stones[j]}
        lower_pole == \E i \in renal :
                        is_lower_pole(normalize_location(Get(stones[i], "location")))
        has_staghorn == \E i \in DOMAIN stones : is_staghorn(stones[i])
    IN
    IF hydronephrosis_level \in {"severe", "moderate"} /\ ureteral # {} THEN "ureteroscopy"
    ELSE IF has_staghorn
            \/ (composition = "struvite" /\ (max_size >= 10 \/ eq_at_least(20))) THEN "pcnl"
    ELSE IF eq_at_least(20) THEN "pcnl"
    ELSE IF Len(stones) >= 3 /\ eq_at_least(15) THEN "pcnl"
    ELSE IF ureteral # {} THEN
        LET max_ureter == MaxOver({stone_size_mm(stones[i]) : i \in ureteral})
            distal == \E i \in ureteral :
                        normalize_location(Get(stones[i], "location")) = "distal_ureter"
        IN  IF max_ureter < 5 THEN (IF distal THEN "medical_expulsive" ELSE "observation")
            ELSE IF max_ureter <= 10 THEN (IF distal THEN "medical_expulsive" ELSE "ureteroscopy")
            ELSE (IF distal THEN "medical_expulsive" ELSE "ureteroscopy")
    ELSE IF max_size >= 20 THEN "pcnl"
    ELSE IF max_size >= 10 THEN (IF lower_pole THEN "ureteroscopy" ELSE "eswl")
    ELSE adjust_for_composition("observation", composition, max_size)

choose_treatment(stones, composition, total_burden_mm3, hydronephrosis_level) ==
    LET max_size == stone_size_mm(identify_primary_stone(stones))
        \* eq_diameter is None unless the burden is truthy and positive
        has_eq == total_burden_mm3 # NoneNum /\ total_burden_mm3 > 0
        eq_at_least(d) == has_eq /\ EqDiameterAtLeast(total_burden_mm3, d)
        ureteral == {i \in DOMAIN stones :
                        is_ureteral(normalize_location(Get(stones[i], "location")))}
        \* renal = [s for s in stones if s not in ureteral]: list membership is by value
        renal == {i \in DOMAIN stones : \A j \in ureteral : stones[i] # stones[j]}
        lower_pole == \E i \in renal :
                        is_lower_pole(normalize_location(Get(stones[i], "location")))
        has_staghorn == \E i \in DOMAIN stones : is_staghorn(stones[i])
    IN
    IF hydronephrosis_level \in {"severe", "moderate"} /\ ureteral # {} THEN "ureteroscopy"
    ELSE IF has_staghorn
            \/ (composition = "struvite" /\ (max_size >= 10 \/ eq_at_least(20))) THEN "pcnl"
    ELSE IF eq_at_least(20) THEN "pcnl"
    ELSE IF Len(stones) >= 3 /\ eq_at_least(15) THEN "pcnl"
    ELSE IF ureteral # {} THEN
        LET max_ureter == MaxOver({stone_size_mm(stones[i]) : i \in ureteral})
            distal == \E i \in ureteral :
                        normalize_location(Get(stones[i], "location")) = "distal_ureter"
        IN  IF max_ureter < 5 THEN (IF distal THEN "medical_expulsive" ELSE "observation")
            ELSE IF max_ureter <= 10 THEN (IF distal THEN "medical_expulsive" ELSE "ureteroscopy")
            ELSE "ureteroscopy"
    ELSE IF max_size >= 20 THEN "pcnl"
    ELSE IF max_size >= 10 THEN (IF lower_pole THEN "ureteroscopy" ELSE "eswl")
    ELSE adjust_for_composition("observation", composition, max_size)

\* The f-string of _build_treatment_rationale, as the tuple of the values it prints
\* (the burden stands for the one-decimal diameter the string shows)
build_treatment_rationale(stones, composition, total_burden_mm3, hydronephrosis_level, primary, treatment) ==
    <<Len(stones), stone_size_mm(primary),
      IF Has(primary, "location") THEN primary["location"] ELSE "unknown",
      composition, treatment,
      IF total_burden_mm3 # NoneNum /\ total_burden_mm3 > 0 THEN total_burden_mm3 ELSE NoneNum,
      IF hydronephrosis_level \notin {None, ""} THEN hydronephrosis_level ELSE None>>

\* A node that remembers it has decided before: a routine case becomes urgent on the next call
treatment_decision_node_escalating(st) ==
    LET stones == IF Has(st, "stones_detected") THEN st["stones_detected"] ELSE <<>> IN
    IF stones = <<>>
    THEN Merge(st, [treatment_recommendation |-> "observation",
                    treatment_rationale |-> <<"No stones detected on the current scan.">>,
                    urgency_level |-> "routine"])
    ELSE
    LET composition == IF Has(st, "predicted_composition")
                       THEN st["predicted_composition"] ELSE STONE_TYPE_UNKNOWN
        total_burden_mm3 == GetNum(st, "total_stone_burden_mm3")
        hydronephrosis_level == Get(st, "hydronephrosis_level")
        primary == identify_primary_stone(stones)
        treatment == choose_treatment(stones, composition, total_burden_mm3, hydronephrosis_level)
        first == assess_urgency(stones, total_burden_mm3, hydronephrosis_level)
        urgency == IF Has(st, "urgency_level") /\ first = "routine" THEN "urgent" ELSE first
        rationale == build_treatment_rationale(stones, composition, total_burden_mm3,
                                               hydronephrosis_level, primary, treatment)
    IN  Merge(st, [treatment_recommendation |-> treatment,
                   treatment_rationale |-> rationale,
                   urgency_level |-> urgency])

treatment_decision_node(st) ==
    LET stones == IF Has(st, "stones_detected") THEN st["stones_detected"] ELSE <<>> IN
    IF stones = <<>>
    THEN Merge(st, [treatment_recommendation |-> "observation",
                    treatment_rationale |-> <<"No stones detected on the current scan.">>,
                    urgency_level |-> "routine"])
    ELSE
    LET composition == IF Has(st, "predicted_composition")
                       THEN st["predicted_composition"] ELSE STONE_TYPE_UNKNOWN
        total_burden_mm3 == GetNum(st, "total_stone_burden_mm3")
        hydronephrosis_level == Get(st, "hydronephrosis_level")
        primary == identify_primary_stone(stones)
        treatment == choose_treatment(stones, composition, total_burden_mm3, hydronephrosis_level)
        urgency == assess_urgency(stones, total_burden_mm3, hydronephrosis_level)
        rationale == build_treatment_rationale(stones, composition, total_burden_mm3,
                                               hydronephrosis_level, primary, treatment)
    IN  Merge(st, [treatment_recommendation |-> treatment,
                   treatment_rationale |-> rationale,
                   urgency_level |-> urgency])

----------------------------------------------------------------------------
(* Lab payload validation: lab_validation.py                               *)
(* A validator is TRUE when the Python function returns, FALSE when it     *)
(* raises ValueError.                                                      *)

COMPOSITION_KEYS == <<"composition", "stone_type", "stone_composition", "primary_composition">>

URINE_REQUIRED_KEYS == {"volume_ml_day", "calcium_mg_day", "citrate_mg_day", "ph"}

\* (low, high) per key; ph in tenths
URINE_RANGES ==
    [volume_ml_day |-> <<500, 10000>>, calcium_mg_day |-> <<0, 600>>,
     citrate_mg_day |-> <<0, 2000>>, uric_acid_mg_day |-> <<0, 1500>>,
     ph |-> <<45, 80>>, sodium_mg_day |-> <<0, 10000>>]

normalize_result_type(value) ==
    IF value = None \/ value = "" THEN ""
    ELSE IF "crystal" \in Words(value) THEN "crystallography"
    ELSE IF "urine" \in Words(value) /\ "24" \in Words(value) THEN "urine_24hr"
    ELSE value

validate_crystallography(results) ==
    \E i \in DOMAIN COMPOSITION_KEYS :
        /\ Has(results, COMPOSITION_KEYS[i])
        /\ ~Blank(results[COMPOSITION_KEYS[i]])

validate_urine(results) ==
    /\ \A key \in URINE_REQUIRED_KEYS : Has(results, key)
    /\ \A key \in DOMAIN URINE_RANGES :
          Has(results, key) =>
              /\ results[key] >= URINE_RANGES[key][1]
              /\ results[key] <= URINE_RANGES[key][2]

validate_lab_results(result_type, results) ==
    LET normalized == normalize_result_type(result_type) IN
    IF normalized = "crystallography" THEN validate_crystallography(results)
    ELSE IF normalized = "urine_24hr" THEN validate_urine(results)
    ELSE TRUE

----------------------------------------------------------------------------
(* Lab integration: kidney_stone.py lab_integration_node *)

normalize_composition(value) ==
    IF value = None \/ value = "" THEN STONE_TYPE_UNKNOWN
    ELSE LET text == Words(value) IN
         IF "oxalate" \in text THEN "calcium_oxalate"
         ELSE IF "phosphate" \in text THEN "calcium_phosphate"
         ELSE IF "uric" \in text THEN "uric_acid"
         ELSE IF "struvite" \in text THEN "struvite"
         ELSE IF "cystine" \in text THEN "cystine"
         ELSE IF "mixed" \in text THEN "mixed"
         ELSE STONE_TYPE_UNKNOWN

\* for key in keys: value = d.get(key); if value: take it and stop
FirstTruthyText(d, keys) ==
    LET hits == {i \in DOMAIN keys : Has(d, keys[i]) /\ d[keys[i]] # ""} IN
    IF hits = {} THEN None ELSE d[keys[CHOOSE i \in hits : \A j \in hits : i <= j]]

\* _parse_float(d.get(k1) or d.get(k2) or d.get(k3)): `or` skips None and 0 alike,
\* and a chain that ends on 0 yields that last 0
FirstTruthyNum(d, keys) ==
    LET hits == {i \in DOMAIN keys : Has(d, keys[i]) /\ d[keys[i]] # 0} IN
    IF hits # {} THEN d[keys[CHOOSE i \in hits : \A j \in hits : i <= j]]
    ELSE IF Has(d, keys[Len(keys)]) THEN 0
    ELSE NoneNum

DictOrEmpty(st, k) == IF Has(st, k) THEN st[k] ELSE EmptyDict

UrineFlags(urine_results) ==
    LET urine_calcium == FirstTruthyNum(urine_results, <<"calcium_mg_day", "urine_calcium_mg_day", "calcium">>)
        urine_citrate == FirstTruthyNum(urine_results, <<"citrate_mg_day", "urine_citrate_mg_day", "citrate">>)
        urine_uric == FirstTruthyNum(urine_results, <<"uric_acid_mg_day", "urine_uric_acid_mg_day", "uric_acid">>)
        urine_ph == FirstTruthyNum(urine_results, <<"ph", "urine_ph", "pH">>)
        urine_volume == FirstTruthyNum(urine_results, <<"volume_ml_day", "urine_volume_ml_day", "volume_ml">>)
        urine_oxalate == FirstTruthyNum(urine_results, <<"oxalate_mg_day", "urine_oxalate_mg_day", "oxalate">>)
        urine_sodium == FirstTruthyNum(urine_results, <<"sodium_mg_day", "urine_sodium_mg_day", "sodium">>)
    IN  (IF urine_calcium # NoneNum /\ urine_calcium > 250 THEN {"hypercalciuria"} ELSE {})
        \cup (IF urine_citrate # NoneNum /\ urine_citrate < 320 THEN {"hypocitraturia"} ELSE {})
        \cup (IF urine_uric # NoneNum /\ urine_uric > 750 THEN {"hyperuricosuria"} ELSE {})
        \cup (IF urine_ph # NoneNum /\ urine_ph < 55 THEN {"acidic_urine"} ELSE {})
        \cup (IF urine_ph # NoneNum /\ urine_ph > 68 THEN {"alkaline_urine"} ELSE {})
        \cup (IF urine_volume # NoneNum /\ urine_volume < 2000 THEN {"low_urine_volume"} ELSE {})
        \cup (IF urine_oxalate # NoneNum /\ urine_oxalate > 40 THEN {"hyperoxaluria"} ELSE {})
        \cup (IF urine_sodium # NoneNum /\ urine_sodium > 2300 THEN {"hypernatriuria"} ELSE {})

\* metabolic_risk_factors is a sorted list without repetitions: the set it lists
lab_integration_node(st) ==
    LET crystallography == DictOrEmpty(st, "crystallography_results")
        urine_results == DictOrEmpty(st, "urine_24hr_results")
        risk_factors == IF Has(st, "metabolic_risk_factors") THEN st["metabolic_risk_factors"] ELSE {}
        lab_composition == FirstTruthyText(crystallography, COMPOSITION_KEYS)
        normalized == normalize_composition(lab_composition)
        prior == IF Has(st, "composition_confidence") THEN st["composition_confidence"] ELSE 0
        st2 == IF normalized # STONE_TYPE_UNKNOWN
               THEN Merge(st, [predicted_composition |-> normalized,
                               composition_confidence |-> Max(prior, 90)])
               ELSE st
    IN  Put(st2, "metabolic_risk_factors", risk_factors \cup UrineFlags(urine_results))

----------------------------------------------------------------------------
(* Prevention, education and engagement nodes: kidney_stone.py *)

\* DIETARY_RULES[...]["fluid_target_ml"]; an unlisted composition uses calcium_oxalate's
FluidTargetOf(composition) ==
    CASE composition = "calcium_oxalate" -> 3000
      [] composition = "uric_acid" -> 3000
      [] composition = "calcium_phosphate" -> 2500
      [] composition = "cystine" -> 4000
      [] composition = "struvite" -> 2500
      [] OTHER -> 3000

RulesOf(composition) ==
    IF composition \in {"calcium_oxalate", "uric_acid", "calcium_phosphate", "cystine", "struvite"}
    THEN composition ELSE "calcium_oxalate"

\* keys of MEDICATION_RECOMMENDATIONS
MEDICATION_RECOMMENDATIONS == {"hypercalciuria", "hypocitraturia", "hyperuricosuria", "acidic_urine"}

\* The plan lists are modelled by what selects their entries: the rule set of the
\* composition and the risk factors that add an entry.
prevention_planning_node(st) ==
    LET composition == IF Has(st, "predicted_composition")
                       THEN st["predicted_composition"] ELSE STONE_TYPE_UNKNOWN
        risk_factors == IF Has(st, "metabolic_risk_factors") THEN st["metabolic_risk_factors"] ELSE {}
        base == FluidTargetOf(composition)
        fluid_target == IF "low_urine_volume" \in risk_factors THEN Max(base, 3500) ELSE base
    IN  Merge(st, [dietary_recommendations |->
                       <<RulesOf(composition),
                         risk_factors \cap {"hyperoxaluria", "hypernatriuria", "low_urine_volume"}>>,
                   fluid_intake_target_ml |-> fluid_target,
                   medications_recommended |-> risk_factors \cap MEDICATION_RECOMMENDATIONS,
                   lifestyle_modifications |->
                       <<fluid_target, RulesOf(composition),
                         (risk_factors \cap {"hyperoxaluria", "hypernatriuria"})
                         \cup (IF "alkaline_urine" \in risk_factors /\ composition = "calcium_phosphate"
                               THEN {"alkaline_urine"} ELSE {})>>])

\* Both branches (generate_text returned, or the except fallback) set a summary
\* text and the same materials; the model keeps that the summary is set.
education_generation_node(st) ==
    Merge(st, [personalized_summary |-> "summary",
               education_materials |-> <<"kidney-stones-101.pdf", "hydration-guide.pdf">>])

\* The schedule is its list of templates; the send times (utcnow() plus fixed offsets) are left out
nudge_scheduling_node(st) ==
    LET nudges == <<"welcome", "hydration_morning", "engagement_check">> IN
    Merge(st, [nudge_schedule |->
                   IF Get(st, "treatment_recommendation") = "medical_expulsive"
                   THEN Append(nudges, "medication_reminder") ELSE nudges,
               compliance_checkpoints |-> <<"24hr_urine_recheck", "imaging_followup">>])

----------------------------------------------------------------------------
(* CT analysis and stone modelling nodes: kidney_stone.py *)

\* The bands with exclusive lower bounds
predict_composition_upper_inclusive(hu) ==
    IF hu <= 500 THEN "uric_acid"
    ELSE IF hu <= 700 THEN "cystine"
    ELSE IF hu <= 1000 THEN "calcium_oxalate"
    ELSE "calcium_phosphate"

predict_composition_from_hu(hu) ==
    IF hu < 500 THEN "uric_acid"
    ELSE IF 500 <= hu /\ hu < 700 THEN "cystine"
    ELSE IF 700 <= hu /\ hu < 1000 THEN "calcium_oxalate"
    ELSE "calcium_phosphate"

aggregate_composition(stones) ==
    LET hits == {i \in DOMAIN stones : Get(stones[i], "predicted_composition") \notin {None, ""}} IN
    IF hits = {} THEN STONE_TYPE_UNKNOWN
    ELSE stones[CHOOSE i \in hits : \A j \in hits : i <= j]["predicted_composition"]

\* stone.get("hydronephrosis") or stone.get("hydronephrosis_level") or stone.get("hydronephrosis_severity")
RawHydronephrosis(stone) ==
    FirstTruthyText(stone, <<"hydronephrosis", "hydronephrosis_level", "hydronephrosis_severity">>)

summarize_hydronephrosis(stones) ==
    LET graded == {i \in DOMAIN stones :
                      /\ RawHydronephrosis(stones[i]) # None
                      /\ StripLower(RawHydronephrosis(stones[i])) \in DOMAIN HYDRONEPHROSIS_RANK}
        other == {i \in DOMAIN stones : RawHydronephrosis(stones[i]) # None} \ graded
        rank(i) == HYDRONEPHROSIS_RANK[StripLower(RawHydronephrosis(stones[i]))]
    IN  IF graded # {}
        THEN StripLower(RawHydronephrosis(stones[
                 CHOOSE i \in graded : /\ \A j \in graded : rank(j) <= rank(i)
                                       /\ \A j \in graded : j < i => rank(j) < rank(i)]))
        ELSE IF other # {}
        THEN StripLower(RawHydronephrosis(stones[CHOOSE i \in other : \A j \in other : i <= j]))
        ELSE None

----------------------------------------------------------------------------
(* Output normaliser: ct_normalization.py, for a payload that is a dict    *)
(* whose stone list is a list of dicts with numeric sizes and densities.   *)

\* _first_value: the first key of keys present in the stone (None: none is)
FirstKey(stone, keys) ==
    LET hits == {i \in DOMAIN keys : Has(stone, keys[i])} IN
    IF hits = {} THEN None ELSE keys[CHOOSE i \in hits : \A j \in hits : i <= j]

MaxOfSeq(s) == MaxOver(Range(s))

voxels_to_mm(dims_vox, spacing) ==
    IF Len(dims_vox) < 3 THEN <<dims_vox[1] * MaxOfSeq(spacing)>>
    ELSE <<dims_vox[1] * spacing[1], dims_vox[2] * spacing[2], dims_vox[3] * spacing[3]>>

normalize_hounsfield(stone) ==
    LET key == FirstKey(stone, <<"hounsfield_units", "hu">>) IN
    IF key = None THEN stone ELSE Put(stone, "hounsfield_units", stone[key])

normalize_location_coords(stone) ==
    LET key == FirstKey(stone, <<"coords", "coordinates", "location_coordinates", "center_coords", "centroid">>) IN
    IF Has(stone, "location_coords") \/ key = None THEN stone
    ELSE Put(stone, "location_coords", SubSeq(stone[key], 1, Min(3, Len(stone[key]))))

\* The priority chain of _normalize_sizes. Each stage yields <<found, size, stone>>;
\* a later stage acts only when no earlier one found a size.

\* size_mm and its aliases, else the largest of dimensions_mm
SizeFromMm(stone) ==
    LET k_mm == FirstKey(stone, <<"size_mm", "diameter_mm", "max_diameter_mm", "max_dimension_mm">>)
        k_dims == FirstKey(stone, <<"dimensions_mm", "dims_mm", "dimensions">>)
        dims_mm == IF k_dims = None THEN <<>> ELSE stone[k_dims]
        s0 == IF dims_mm # <<>> THEN Put(stone, "dimensions_mm", dims_mm) ELSE stone
    IN  IF k_mm # None THEN <<TRUE, stone[k_mm], s0>>
        ELSE IF dims_mm # <<>> THEN <<TRUE, MaxOfSeq(dims_mm), s0>>
        ELSE <<FALSE, 0, s0>>

\* a scalar size in voxels times the largest spacing
SizeFromVoxels(prev, stone, spacing) ==
    LET k_vox == FirstKey(stone, <<"size_voxels", "size_px", "max_dimension_voxels", "max_dimension_px">>) IN
    IF ~prev[1] /\ k_vox # None /\ stone[k_vox] # 0
    THEN <<TRUE, stone[k_vox] * MaxOfSeq(spacing), prev[3]>>
    ELSE prev

\* dimensions in voxels, scaled per axis
SizeFromDimensionVoxels(prev, stone, spacing) ==
    LET k_dvox == FirstKey(stone, <<"dimensions_voxels", "dimensions_px", "dims_voxels", "dims_px">>)
        d == voxels_to_mm(stone[k_dvox], spacing)
    IN  IF ~prev[1] /\ k_dvox # None /\ stone[k_dvox] # <<>>
        THEN <<TRUE, MaxOfSeq(d), Put(prev[3], "dimensions_mm", d)>>
        ELSE prev

\* the extent of a bounding box in voxels, scaled per axis
SizeFromBbox(prev, stone, spacing) ==
    LET k_bbox == FirstKey(stone, <<"bbox_voxels", "bbox_px", "bounding_box_voxels", "bounding_box_px", "bbox">>)
        b == stone[k_bbox]
        d == voxels_to_mm(<<b[4] - b[1], b[5] - b[2], b[6] - b[3]>>, spacing)
    IN  IF ~prev[1] /\ k_bbox # None /\ Len(stone[k_bbox]) >= 6
        THEN <<TRUE, MaxOfSeq(d), Put(prev[3], "dimensions_mm", d)>>
        ELSE prev

SizeSet(stage) == IF stage[1] THEN Put(stage[3], "size_mm", stage[2]) ELSE stage[3]

normalize_sizes(stone, spacing) ==
    SizeSet(SizeFromBbox(SizeFromDimensionVoxels(SizeFromVoxels(SizeFromMm(stone), stone, spacing),
                                                 stone, spacing),
                         stone, spacing))

normalize_stone_fields(stone, spacing) ==
    normalize_sizes(normalize_hounsfield(normalize_location_coords(stone)), spacing)

\* Returns <<normalized_stones, normalized_output>>
normalize_ct_output(raw, spacing) ==
    LET key == FirstKey(raw, <<"stones", "stones_detected", "findings">>)
        stones_raw == IF key = None THEN <<>> ELSE raw[key]
        normalized_stones == [i \in DOMAIN stones_raw |-> normalize_stone_fields(stones_raw[i], spacing)]
        kept == (DOMAIN raw) \cap {"confidence", "predicted_composition"}
    IN  <<normalized_stones,
          Put([k \in kept |-> raw[k]], "stones", normalized_stones)>>

----------------------------------------------------------------------------
(* Workflow nodes that read the scan: kidney_stone.py *)

\* Lines 191-195: a stone with a density and no composition gets the HU estimate
WithPredictedComposition(stones) ==
    [i \in DOMAIN stones |->
        IF ~Has(stones[i], "predicted_composition") /\ Has(stones[i], "hounsfield_units")
        THEN Put(stones[i], "predicted_composition",
                 predict_composition_from_hu(stones[i]["hounsfield_units"]))
        ELSE stones[i]]

\* Lines 197-211: the state the node returns
CtAnalysisState(st, normalized_output, normalized_stones) ==
    LET predicted == IF Get(normalized_output, "predicted_composition") \notin {None, ""}
                     THEN normalized_output["predicted_composition"]
                     ELSE aggregate_composition(normalized_stones)
        confidence == IF normalized_stones # <<>>
                      THEN (IF Has(normalized_output, "confidence")
                            THEN normalized_output["confidence"] ELSE 60)
                      ELSE 20
        hydronephrosis_level == summarize_hydronephrosis(normalized_stones)
        st2 == Merge(st, [stones_detected |-> normalized_stones,
                          predicted_composition |-> predicted,
                          composition_confidence |-> confidence])
    IN  IF hydronephrosis_level = None THEN Drop(st2, "hydronephrosis_level")
        ELSE Put(st2, "hydronephrosis_level", hydronephrosis_level)

CtAnalysisFrom(st, normalized) ==
    CtAnalysisState(st, normalized[2], WithPredictedComposition(normalized[1]))

\* raw: the payload analyze_ct returned
ct_analysis_node(st, raw, spacing) == CtAnalysisFrom(st, normalize_ct_output(raw, spacing))

all_positive(values) == \A i \in DOMAIN values : values[i] > 0

\* <<found, length, width, height>>
parse_dimensions_mm(stone) ==
    LET key == FirstKey(stone, <<"dimensions_mm", "dimensions">>)
        dims == IF key = None THEN <<>> ELSE stone[key]
        kl == FirstKey(stone, <<"length_mm", "max_length_mm">>)
        kw == FirstKey(stone, <<"width_mm", "max_width_mm">>)
        kh == FirstKey(stone, <<"height_mm", "thickness_mm">>)
    IN  IF Len(dims) >= 3 /\ all_positive(SubSeq(dims, 1, 3)) THEN <<TRUE, dims[1], dims[2], dims[3]>>
        ELSE IF kl # None /\ kw # None /\ kh # None /\ all_positive(<<stone[kl], stone[kw], stone[kh]>>)
        THEN <<TRUE, stone[kl], stone[kw], stone[kh]>>
        ELSE IF kl # None /\ kw # None /\ all_positive(<<stone[kl], stone[kw]>>)
        THEN <<TRUE, stone[kl], stone[kw], Min(stone[kl], stone[kw])>>
        ELSE <<FALSE, 0, 0, 0>>

\* (4/3) pi (l/2)(w/2)(h/2), in whole mm3 (rounded down)
EllipsoidVolume(l, w, h) == (PiNum * l * w * h) \div (6 * PiDen)

\* NoneNum when nothing can be estimated
estimate_stone_volume_mm3(stone) ==
    IF Has(stone, "size_mm") /\ stone["size_mm"] > 0
    THEN EllipsoidVolume(stone["size_mm"], stone["size_mm"], stone["size_mm"])
    ELSE LET dims == parse_dimensions_mm(stone) IN
         IF dims[1] THEN EllipsoidVolume(dims[2], dims[3], dims[4]) ELSE NoneNum

SumSeq(s) ==
    LET RECURSIVE Sum(_)
        Sum(i) == IF i = 0 THEN 0 ELSE Sum(i - 1) + s[i]
    IN  Sum(Len(s))

\* A node whose burden counts the segmented volumes only
stone_modeling_node_segmented_burden(st, masks, spacing) ==
    LET stones == IF Has(st, "stones_detected") THEN st["stones_detected"] ELSE <<>> IN
    IF stones = <<>> THEN Drop(st, "total_stone_burden_mm3")
    ELSE
    LET voxel_mm3 == spacing[1] * spacing[2] * spacing[3]
        volume(i) == IF masks[i] > 0 THEN masks[i] * voxel_mm3
                     ELSE estimate_stone_volume_mm3(stones[i])
        enriched == [i \in DOMAIN stones |->
            LET tagged == Merge(stones[i],
                    [segmentation_method |-> IF masks[i] > 0 THEN "thresholding" ELSE "approximate",
                     mesh_generated |-> masks[i] >= 10])
            IN  IF volume(i) = NoneNum THEN Drop(tagged, "volume_mm3")
                ELSE Put(tagged, "volume_mm3", volume(i))]
        meshes == SelectSeq(masks, LAMBDA n : n >= 10)
        total_burden == SumSeq([i \in DOMAIN stones |-> IF masks[i] > 0 THEN volume(i) ELSE 0])
        st2 == Merge(st, [stones_detected |-> enriched, total_stone_burden_mm3 |-> total_burden])
    IN  IF meshes = <<>> THEN Drop(st2, "stone_3d_model")
        ELSE Put(st2, "stone_3d_model",
                 [version |-> 1, spacing_mm |-> spacing, stone_count |-> Len(meshes), meshes |-> meshes])

\* masks[i] is the voxel count of the mask _segment_stone_masks found for stone i
\* (0: None). A mask of fewer than 10 voxels gets no mesh.
stone_modeling_node(st, masks, spacing) ==
    LET stones == IF Has(st, "stones_detected") THEN st["stones_detected"] ELSE <<>> IN
    IF stones = <<>> THEN Drop(st, "total_stone_burden_mm3")
    ELSE
    LET voxel_mm3 == spacing[1] * spacing[2] * spacing[3]
        volume(i) == IF masks[i] > 0 THEN masks[i] * voxel_mm3
                     ELSE estimate_stone_volume_mm3(stones[i])
        enriched == [i \in DOMAIN stones |->
            LET tagged == Merge(stones[i],
                    [segmentation_method |-> IF masks[i] > 0 THEN "thresholding" ELSE "approximate",
                     mesh_generated |-> masks[i] >= 10])
            IN  IF volume(i) = NoneNum THEN Drop(tagged, "volume_mm3")
                ELSE Put(tagged, "volume_mm3", volume(i))]
        meshes == SelectSeq(masks, LAMBDA n : n >= 10)
        total_burden == SumSeq([i \in DOMAIN stones |-> IF volume(i) = NoneNum THEN 0 ELSE volume(i)])
        st2 == Merge(st, [stones_detected |-> enriched, total_stone_burden_mm3 |-> total_burden])
    IN  IF meshes = <<>> THEN Drop(st2, "stone_3d_model")
        ELSE Put(st2, "stone_3d_model",
                 [version |-> 1, spacing_mm |-> spacing, stone_count |-> Len(meshes), meshes |-> meshes])

----------------------------------------------------------------------------
(* The compiled workflow: kidney_stone.py build_workflow *)

\* A router that looks at the crystallography payload alone
labs_available_crystallography_only(st) ==
    IF DOMAIN DictOrEmpty(st, "crystallography_results") # {}
    THEN "lab_integration"
    ELSE "prevention_planning"

labs_available(st) ==
    IF DOMAIN DictOrEmpty(st, "crystallography_results") # {}
       \/ DOMAIN DictOrEmpty(st, "urine_24hr_results") # {}
    THEN "lab_integration"
    ELSE "prevention_planning"

EntryPoint == "ct_analysis"

\* A graph whose education node is wired to END, leaving nudge_scheduling out
EdgeWithoutNudges(node, st) ==
    CASE node = "ct_analysis" -> "stone_modeling"
      [] node = "stone_modeling" -> "treatment_decision"
      [] node = "treatment_decision" -> labs_available(st)
      [] node = "lab_integration" -> "prevention_planning"
      [] node = "prevention_planning" -> "education_generation"
      [] node = "education_generation" -> "END"
      [] node = "nudge_scheduling" -> "END"

\* The edge leaving node, taken on the state the node returned
Edge(node, st) ==
    CASE node = "ct_analysis" -> "stone_modeling"
      [] node = "stone_modeling" -> "treatment_decision"
      [] node = "treatment_decision" -> labs_available(st)
      [] node = "lab_integration" -> "prevention_planning"
      [] node = "prevention_planning" -> "education_generation"
      [] node = "education_generation" -> "nudge_scheduling"
      [] node = "nudge_scheduling" -> "END"

----------------------------------------------------------------------------
(* Lab-triggered re-run: lab_refresh.py refresh_analysis_with_labs *)

\* The nodes of lines 44-48, in the order they are awaited
RefreshStages == <<"lab_integration", "treatment_decision", "prevention_planning", "education_generation", "nudge_scheduling">>

\* One node that needs no scan
RunStage(node, st) ==
    CASE node = "lab_integration" -> lab_integration_node(st)
      [] node = "treatment_decision" -> treatment_decision_node(st)
      [] node = "prevention_planning" -> prevention_planning_node(st)
      [] node = "education_generation" -> education_generation_node(st)
      [] node = "nudge_scheduling" -> nudge_scheduling_node(st)

RECURSIVE RunStages(_, _)
RunStages(nodes, st) ==
    IF nodes = <<>> THEN st
    ELSE RunStages(Tail(nodes), RunStage(Head(nodes), st))

\* state = {...} of lines 31-42; a column that is NULL is a key bound to None
RefreshInitialState(analysis, crystallography_results, urine_24hr_results) ==
    LET copied == {"stones_detected", "predicted_composition", "composition_confidence",
                   "total_stone_burden_mm3", "hydronephrosis_level"} \cap DOMAIN analysis
        base == [k \in copied |-> analysis[k]]
        with_conf == IF Has(base, "composition_confidence") THEN base
                     ELSE Put(base, "composition_confidence", 0)
        with_cr == IF DOMAIN crystallography_results = {} THEN with_conf
                   ELSE Put(with_conf, "crystallography_results", crystallography_results)
    IN  IF DOMAIN urine_24hr_results = {} THEN with_cr
        ELSE Put(with_cr, "urine_24hr_results", urine_24hr_results)

\* The state after line 48
RefreshState(analysis, crystallography_results, urine_24hr_results) ==
    RunStages(RefreshStages,
              RefreshInitialState(analysis, crystallography_results, urine_24hr_results))

\* The analysis row after lines 50-62
RefreshedAnalysis(analysis, st) ==
    Merge(analysis,
          [predicted_composition |-> st["predicted_composition"],
           composition_confidence |-> st["composition_confidence"],
           treatment_recommendation |-> st["treatment_recommendation"],
           treatment_rationale |-> st["treatment_rationale"],
           urgency_level |-> st["urgency_level"],
           provider_approved |-> FALSE,
           workflow_state |-> st])

\* plan_crud.get_latest_plan: index of the newest plan, 0 if there is none
get_latest_plan(plans) == Len(plans)

\* The tables after lines 60-122: the analysis is updated, a new active plan is
\* created and the latest one superseded, a new campaign is created and every
\* other campaign of the patient paused, and the nudges are stored.
RefreshTables(tables, st, disable_scheduled_sms) ==
    LET latest_plan == get_latest_plan(tables.plans)
        new_plan_id == Len(tables.plans) + 1
        new_plan == [analysis_linked |-> TRUE, active |-> TRUE, superseded_by |-> 0,
                     fluid_intake_target_ml |-> st["fluid_intake_target_ml"]]
        plans1 == Append(tables.plans, new_plan)
        plans2 == IF latest_plan # 0 /\ plans1[latest_plan].active
                  THEN [plans1 EXCEPT ![latest_plan].active = FALSE,
                                      ![latest_plan].superseded_by = new_plan_id]
                  ELSE plans1
        \* every scheduled nudge goes by sms
        nudge_schedule == IF disable_scheduled_sms THEN <<>> ELSE st["nudge_schedule"]
        new_campaign_id == Len(tables.campaigns) + 1
        campaigns2 == IF nudge_schedule = <<>> THEN tables.campaigns
                      ELSE Append([i \in DOMAIN tables.campaigns |->
                                      [tables.campaigns[i] EXCEPT !.status = "paused"]],
                                  [plan_id |-> new_plan_id, status |-> "pending_approval"])
        nudges2 == tables.nudges \o [i \in DOMAIN nudge_schedule |->
                                       [campaign_id |-> new_campaign_id, template |-> nudge_schedule[i]]]
    IN  [tables EXCEPT !.analysis = RefreshedAnalysis(tables.analysis, st),
                       !.plans = plans2, !.campaigns = campaigns2, !.nudges = nudges2]

----------------------------------------------------------------------------
(* Lab rows: crud/lab_result.py. A row is                                  *)
(*   [result_type, results, analysis_linked, dated]                        *)
(* where dated tells whether result_date is set (every date set is today). *)

\* Index of the row get_latest_lab_result returns (0: None): result_date
\* descending with NULLs last, then created_at descending
get_latest_lab_result(rows, result_type) ==
    LET matching == {i \in DOMAIN rows : rows[i].result_type = result_type}
        dated == {i \in matching : rows[i].dated}
    IN  IF dated # {} THEN MaxOver(dated)
        ELSE IF matching # {} THEN MaxOver(matching)
        ELSE 0

ResultsOf(rows, i) == IF i = 0 THEN EmptyDict ELSE rows[i].results

\* settings.disable_scheduled_sms
DisableScheduledSms == FALSE

\* The tail of both lab handlers (labs.py 36-48, 109-121): fetch the latest
\* payload of each type and re-run. Returns <<tables, returned state>>.
RerunWithLatestLabs(tables) ==
    LET crystallography == get_latest_lab_result(tables.labs, "crystallography")
        urine == get_latest_lab_result(tables.labs, "urine_24hr")
        st == RefreshState(tables.analysis, ResultsOf(tables.labs, crystallography),
                           ResultsOf(tables.labs, urine))
    IN  <<RefreshTables(tables, st, DisableScheduledSms), st>>

----------------------------------------------------------------------------
(* Inputs *)

\* get_spacing of the uploaded series: (dz, dy, dx) in mm
ScanSpacing == <<3, 1, 1>>

StoneRenal12 == [location |-> "kidney_upper", size_mm |-> 12, hounsfield_units |-> 950, shape |-> "round"]

StoneDistal == [location |-> "distal_ureter", size_mm |-> 4, hu |-> 1100, hydronephrosis |-> "moderate"]

StoneUric == [location |-> "Left Kidney Lower Pole", size_voxels |-> 2, hounsfield_units |-> 400, obstruction |-> TRUE]

\* What analyze_ct can do: return a parsed payload, or raise (HTTP error,
\* timeout, output that _normalize_analysis_output cannot parse)
PerceptionOutcomes ==
    {[outcome |-> "ok", output |-> [stones |-> l]] : l \in {<<>>, <<StoneRenal12>>, <<StoneDistal, StoneUric>>}}
    \cup {[outcome |-> o, output |-> EmptyDict] : o \in {"http_error", "timeout", "unparseable"}}

\* Voxel counts of the masks segmentation can return for a stone (0: no mask)
MaskVoxels == {0, 1500}

Struvite == [composition |-> "struvite"]

\* Scenario D of the specification
UrineD == [calcium_mg_day |-> 300, citrate_mg_day |-> 200, ph |-> 50, volume_ml_day |-> 2500]

UrineLowVolume == [calcium_mg_day |-> 100, citrate_mg_day |-> 500, ph |-> 60, volume_ml_day |-> 1500]

\* Lab payloads clients send
LabPayloads == {Struvite, UrineD, UrineLowVolume}

ResultTypes == {"crystallography", "urine_24hr"}

\* PATCH bodies: the fields of LabResultUpdate the client set (exclude_unset)
LabPatches ==
    {[result_type |-> x] : x \in ResultTypes}
    \cup {[results |-> x] : x \in LabPayloads}
    \cup {[analysis_linked |-> TRUE]}

----------------------------------------------------------------------------
(* The /analyze request: api/routes/ct_analysis.py *)

NoRequest == [explicit_crystallography |-> EmptyDict, explicit_urine |-> EmptyDict,
              crystallography_record |-> 0, urine_record |-> 0]

NoTables == [analysis |-> EmptyDict, labs |-> <<>>, plans |-> <<>>, campaigns |-> <<>>, nudges |-> <<>>]

Init ==
    /\ pc = "idle"
    /\ state = EmptyDict
    /\ visited = <<>>
    /\ perception = [outcome |-> "pending", output |-> EmptyDict]
    /\ request = NoRequest
    /\ db = NoTables
    /\ refreshed = EmptyDict
    /\ rerun_visited = <<>>
    /\ ops = 0

\* analyze_ct up to the call of the workflow (lines 62-98, 207-224): an explicit
\* payload (empty dict: None) must validate, else the latest stored one is used
AnalyzeStart(explicit_crystallography, explicit_urine) ==
    /\ pc = "idle"
    /\ DOMAIN explicit_crystallography # {} => validate_lab_results("crystallography", explicit_crystallography)
    /\ DOMAIN explicit_urine # {} => validate_lab_results("urine_24hr", explicit_urine)
    /\ LET crystallography_record == IF DOMAIN explicit_crystallography = {}
                                     THEN get_latest_lab_result(db.labs, "crystallography") ELSE 0
           urine_record == IF DOMAIN explicit_urine = {}
                           THEN get_latest_lab_result(db.labs, "urine_24hr") ELSE 0
           crystallography == IF DOMAIN explicit_crystallography # {} THEN explicit_crystallography
                              ELSE ResultsOf(db.labs, crystallography_record)
           urine == IF DOMAIN explicit_urine # {} THEN explicit_urine
                    ELSE ResultsOf(db.labs, urine_record)
           with_cr == IF DOMAIN crystallography = {} THEN EmptyDict
                      ELSE [crystallography_results |-> crystallography]
       IN  /\ request' = [explicit_crystallography |-> explicit_crystallography,
                          explicit_urine |-> explicit_urine,
                          crystallography_record |-> crystallography_record,
                          urine_record |-> urine_record]
           /\ state' = IF DOMAIN urine = {} THEN with_cr
                       ELSE Put(with_cr, "urine_24hr_results", urine)
    /\ pc' = EntryPoint
    /\ visited' = <<>>
    /\ UNCHANGED <<perception, db, refreshed, rerun_visited, ops>>

\* A handler that stores the request's explicit lab payloads before it calls the
\* workflow: a failed run then leaves lab rows behind
CtAnalysis_labs_stored_first ==
    /\ pc = "ct_analysis"
    /\ visited' = Append(visited, "ct_analysis")
    /\ \E p \in PerceptionOutcomes :
        /\ perception' = p
        /\ IF p.outcome = "ok"
           THEN /\ state' = ct_analysis_node(state, p.output, ScanSpacing)
                /\ pc' = Edge("ct_analysis", state')
                /\ db' = db
           ELSE /\ state' = state
                /\ pc' = "failed"
                /\ db' = IF DOMAIN request.explicit_crystallography # {}
                         THEN [db EXCEPT !.labs = Append(@, [result_type |-> "crystallography",
                                                             results |-> request.explicit_crystallography,
                                                             analysis_linked |-> FALSE, dated |-> TRUE])]
                         ELSE db
    /\ UNCHANGED <<request, refreshed, rerun_visited, ops>>

\* A node raising makes workflow.ainvoke raise: HTTP 500, nothing is stored
CtAnalysis ==
    /\ pc = "ct_analysis"
    /\ visited' = Append(visited, "ct_analysis")
    /\ \E p \in PerceptionOutcomes :
        /\ perception' = p
        /\ IF p.outcome = "ok"
           THEN /\ state' = ct_analysis_node(state, p.output, ScanSpacing)
                /\ pc' = Edge("ct_analysis", state')
           ELSE /\ state' = state
                /\ pc' = "failed"
    /\ UNCHANGED <<request, db, refreshed, rerun_visited, ops>>

StoneModeling ==
    /\ pc = "stone_modeling"
    /\ visited' = Append(visited, "stone_modeling")
    /\ \E masks \in [1..Len(state["stones_detected"]) -> MaskVoxels] :
        state' = stone_modeling_node(state, masks, ScanSpacing)
    /\ pc' = Edge("stone_modeling", state')
    /\ UNCHANGED <<perception, request, db, refreshed, rerun_visited, ops>>

TreatmentDecision ==
    /\ pc = "treatment_decision"
    /\ visited' = Append(visited, "treatment_decision")
    /\ state' = treatment_decision_node(state)
    /\ pc' = Edge("treatment_decision", state')
    /\ UNCHANGED <<perception, request, db, refreshed, rerun_visited, ops>>

LabIntegration ==
    /\ pc = "lab_integration"
    /\ visited' = Append(visited, "lab_integration")
    /\ state' = lab_integration_node(state)
    /\ pc' = Edge("lab_integration", state')
    /\ UNCHANGED <<perception, request, db, refreshed, rerun_visited, ops>>

PreventionPlanning ==
    /\ pc = "prevention_planning"
    /\ visited' = Append(visited, "prevention_planning")
    /\ state' = prevention_planning_node(state)
    /\ pc' = Edge("prevention_planning", state')
    /\ UNCHANGED <<perception, request, db, refreshed, rerun_visited, ops>>

EducationGeneration ==
    /\ pc = "education_generation"
    /\ visited' = Append(visited, "education_generation")
    /\ state' = education_generation_node(state)
    /\ pc' = Edge("education_generation", state')
    /\ UNCHANGED <<perception, request, db, refreshed, rerun_visited, ops>>

NudgeScheduling ==
    /\ pc = "nudge_scheduling"
    /\ visited' = Append(visited, "nudge_scheduling")
    /\ state' = nudge_scheduling_node(state)
    /\ pc' = Edge("nudge_scheduling", state')
    /\ UNCHANGED <<perception, request, db, refreshed, rerun_visited, ops>>

\* _run_analysis after the workflow returned (lines 229-330)
Persist ==
    /\ pc = "END"
    /\ LET analysis ==
               Merge([k \in {"stones_detected", "predicted_composition", "composition_confidence",
                             "stone_3d_model", "total_stone_burden_mm3", "hydronephrosis_level",
                             "treatment_recommendation", "treatment_rationale", "urgency_level"}
                            \cap DOMAIN state |-> state[k]],
                     [workflow_state |-> state])
           link(rows, i) == IF i # 0 /\ ~rows[i].analysis_linked
                            THEN [rows EXCEPT ![i].analysis_linked = TRUE] ELSE rows
           labs1 == IF DOMAIN request.explicit_crystallography # {}
                    THEN Append(db.labs, [result_type |-> "crystallography",
                                          results |-> request.explicit_crystallography,
                                          analysis_linked |-> TRUE, dated |-> TRUE])
                    ELSE link(db.labs, request.crystallography_record)
           labs2 == IF DOMAIN request.explicit_urine # {}
                    THEN Append(labs1, [result_type |-> "urine_24hr",
                                        results |-> request.explicit_urine,
                                        analysis_linked |-> TRUE, dated |-> TRUE])
                    ELSE link(labs1, request.urine_record)
           has_plan == Has(state, "fluid_intake_target_ml") /\ state["fluid_intake_target_ml"] # 0
           plans == IF has_plan
                    THEN Append(db.plans, [analysis_linked |-> TRUE, active |-> TRUE, superseded_by |-> 0,
                                           fluid_intake_target_ml |-> state["fluid_intake_target_ml"]])
                    ELSE db.plans
           nudge_schedule == IF DisableScheduledSms \/ ~Has(state, "nudge_schedule")
                             THEN <<>> ELSE state["nudge_schedule"]
           with_campaign == has_plan /\ nudge_schedule # <<>>
           campaign_id == Len(db.campaigns) + 1
       IN  db' = [analysis |-> analysis,
                  labs |-> labs2,
                  plans |-> plans,
                  campaigns |-> IF with_campaign
                                THEN Append(db.campaigns, [plan_id |-> Len(plans), status |-> "pending_approval"])
                                ELSE db.campaigns,
                  nudges |-> IF with_campaign
                             THEN db.nudges \o [i \in DOMAIN nudge_schedule |->
                                                  [campaign_id |-> campaign_id, template |-> nudge_schedule[i]]]
                             ELSE db.nudges]
    /\ pc' = "persisted"
    /\ UNCHANGED <<state, visited, perception, request, refreshed, rerun_visited, ops>>

\* Whether some analysis is stored: before it, no analysis_id names one (400)
AnalysisExists == DOMAIN db.analysis # {}

\* POST /labs/ (labs.py create_lab_result) without a result_date; a request
\* answered 400 changes nothing
LabCreate(result_type, results, linked, rerun) ==
    /\ pc \in {"idle", "persisted"}
    /\ ops < MaxLabOps
    /\ linked => AnalysisExists
    /\ validate_lab_results(result_type, results)
    /\ LET row == [result_type |-> result_type, results |-> results,
                   analysis_linked |-> linked, dated |-> FALSE]
           tables == [db EXCEPT !.labs = Append(db.labs, row)]
       IN  IF rerun /\ linked
           THEN LET done == RerunWithLatestLabs(tables) IN
                /\ db' = done[1]
                /\ refreshed' = done[2]
                /\ rerun_visited' = RefreshStages
           ELSE /\ db' = tables
                /\ UNCHANGED <<refreshed, rerun_visited>>
    /\ ops' = ops + 1
    /\ UNCHANGED <<pc, state, visited, perception, request>>

\* crud update_lab_result: setattr of every field the client set
PatchedRow(row, payload) ==
    [result_type |-> IF Has(payload, "result_type") THEN payload["result_type"] ELSE row.result_type,
     results |-> IF Has(payload, "results") THEN payload["results"] ELSE row.results,
     analysis_linked |-> Has(payload, "analysis_linked") \/ row.analysis_linked,
     dated |-> row.dated]

\* PATCH /labs/{lab_id} (labs.py update_lab_result)
LabUpdate(lab_id, payload, rerun) ==
    /\ pc \in {"idle", "persisted"}
    /\ ops < MaxLabOps
    /\ lab_id \in DOMAIN db.labs
    /\ Has(payload, "analysis_linked") => AnalysisExists
    /\ Has(payload, "results") =>
          validate_lab_results(IF Has(payload, "result_type") THEN payload["result_type"]
                               ELSE db.labs[lab_id].result_type,
                               payload["results"])
    /\ LET updated == PatchedRow(db.labs[lab_id], payload)
           tables == [db EXCEPT !.labs[lab_id] = updated]
       IN  IF rerun /\ updated.analysis_linked
           THEN LET done == RerunWithLatestLabs(tables) IN
                /\ db' = done[1]
                /\ refreshed' = done[2]
                /\ rerun_visited' = RefreshStages
           ELSE /\ db' = tables
                /\ UNCHANGED <<refreshed, rerun_visited>>
    /\ ops' = ops + 1
    /\ UNCHANGED <<pc, state, visited, perception, request>>

Analyze ==
    \E explicit_crystallography \in {EmptyDict, Struvite}, explicit_urine \in {EmptyDict, UrineD} :
        AnalyzeStart(explicit_crystallography, explicit_urine)

CreateLab ==
    \E result_type \in ResultTypes, results \in LabPayloads, linked, rerun \in BOOLEAN :
        LabCreate(result_type, results, linked, rerun)

UpdateLab ==
    \E lab_id \in DOMAIN db.labs, payload \in LabPatches, rerun \in BOOLEAN :
        LabUpdate(lab_id, payload, rerun)

Next ==
    \/ Analyze
    \/ CtAnalysis
    \/ StoneModeling
    \/ TreatmentDecision
    \/ LabIntegration
    \/ PreventionPlanning
    \/ EducationGeneration
    \/ NudgeScheduling
    \/ Persist
    \/ CreateLab
    \/ UpdateLab

Spec == Init /\ [][Next]_vars

\* langgraph runs a node that is entered up to its return: the run does not stall
\* between two nodes
Workflow ==
    \/ CtAnalysis
    \/ StoneModeling
    \/ TreatmentDecision
    \/ LabIntegration
    \/ PreventionPlanning
    \/ EducationGeneration
    \/ NudgeScheduling

FairSpec == Spec /\ WF_vars(Workflow)

----------------------------------------------------------------------------
(* The treatment decision on its own: every state ct_analysis and          *)
(* stone_modeling can hand to treatment_decision_node for a stone list     *)
(* drawn from DecisionStones, when segmentation finds no mask.             *)

DecisionStones ==
    {[location |-> "kidney_lower", size_mm |-> 6, hounsfield_units |-> 950],
     [location |-> "distal_ureter", size_mm |-> 4, hounsfield_units |-> 1100, hydronephrosis |-> "moderate"],
     [location |-> "proximal_ureter", size_mm |-> 8, hounsfield_units |-> 800, obstruction |-> TRUE],
     [location |-> "kidney_upper", size_mm |-> 12, hounsfield_units |-> 950, hydronephrosis |-> "severe"],
     [location |-> "distal_ureter", size_mm |-> 7, hounsfield_units |-> 600, complete_obstruction |-> TRUE],
     [location |-> "kidney_upper", size_mm |-> 25, hounsfield_units |-> 1200, shape |-> "staghorn"],
     [location |-> "kidney_lower", size_mm |-> 15, hounsfield_units |-> 400],
     [location |-> "renal pelvis", size_mm |-> 3, hounsfield_units |-> 300, hydronephrosis |-> "Severe"],
     [location |-> "kidney_upper", size_mm |-> 12, hounsfield_units |-> 450],
     [location |-> "kidney_upper", size_mm |-> 15, hounsfield_units |-> 400, shape |-> "staghorn"],
     [location |-> "distal_ureter", size_mm |-> 12, hounsfield_units |-> 900],
     [location |-> "distal_ureter", size_mm |-> 10, hounsfield_units |-> 900],
     [location |-> "distal_ureter", size_mm |-> 4, hounsfield_units |-> 900],
     [location |-> "proximal_ureter", size_mm |-> 5, hounsfield_units |-> 900],
     [location |-> "proximal_ureter", size_mm |-> 4, hounsfield_units |-> 900]}

\* Voxel counts of the mask segmentation finds for the first stone (0: no mask),
\* on a scan of 1 mm isotropic spacing: around the 20 mm sphere-equivalent volume
DecisionMasks == {0, 4188, 4189}

NoMasks(stones) == [i \in DOMAIN stones |-> 0]

\* The state on entry of treatment_decision_node: after ct_analysis and
\* stone_modeling in a first run, and after lab_integration has also run on a
\* crystallography payload when the run is a refresh.
InitDecide ==
    /\ pc = "treatment_decision"
    /\ \E l \in SeqsUpTo(DecisionStones, MaxStones), m \in DecisionMasks,
          crystallography \in {EmptyDict, Struvite} :
        LET masks == [i \in DOMAIN l |-> IF i = 1 THEN m ELSE NoMasks(l)[i]]
            modelled == stone_modeling_node(ct_analysis_node(EmptyDict, [stones |-> l], <<1, 1, 1>>),
                                            masks, <<1, 1, 1>>)
        IN  /\ perception = [outcome |-> "ok", output |-> [stones |-> l]]
            /\ state = IF crystallography = EmptyDict THEN modelled
                       ELSE lab_integration_node(Put(modelled, "crystallography_results", crystallography))
            /\ visited = IF crystallography = EmptyDict THEN <<"ct_analysis", "stone_modeling">>
                         ELSE <<"lab_integration">>
    /\ request = NoRequest
    /\ db = NoTables
    /\ refreshed = EmptyDict
    /\ rerun_visited = <<>>
    /\ ops = 0

Decide ==
    /\ pc = "treatment_decision"
    /\ visited' = Append(visited, "treatment_decision")
    /\ state' = treatment_decision_node(state)
    /\ pc' = "decided"
    /\ UNCHANGED <<perception, request, db, refreshed, rerun_visited, ops>>

SpecDecide == InitDecide /\ [][Decide]_vars

----------------------------------------------------------------------------
(* Lab integration on its own: every state in which lab_integration_node   *)
(* is entered with payloads the validator accepted.                        *)

CompositionTexts == {None, " ", "struvite", "brushite", "uric acid"}

\* Crystallography payloads over two of the accepted keys
CrystallographyPayloads ==
    {p \in {DictOf(f, None) : f \in [composition : CompositionTexts, stone_type : CompositionTexts]} :
        validate_lab_results("crystallography", p)}

UrineOptionalFields ==
    {EmptyDict,
     [uric_acid_mg_day |-> 750, oxalate_mg_day |-> 40, sodium_mg_day |-> 2300],
     [uric_acid_mg_day |-> 751, oxalate_mg_day |-> 41, sodium_mg_day |-> 2301]}

\* Urine payloads with every required field, on and around each threshold
UrinePayloads ==
    {p \in {Merge(r, o) : r \in [volume_ml_day : {1999, 2000, 2500}, calcium_mg_day : {0, 250, 251, 300},
                                 citrate_mg_day : {0, 200, 320}, ph : {50, 55, 68, 69}],
                          o \in UrineOptionalFields} :
        validate_lab_results("urine_24hr", p)}

\* composition_confidence as ct_analysis can leave it, in hundredths
PriorConfidences == {20, 60, 95}

InitLabInt ==
    /\ pc = "lab_integration"
    /\ \E confidence \in PriorConfidences :
        \/ \E p \in CrystallographyPayloads :
            state = [predicted_composition |-> "calcium_oxalate", composition_confidence |-> confidence,
                     crystallography_results |-> p]
        \/ /\ confidence = 60
           /\ \E p \in UrinePayloads :
                state = [predicted_composition |-> "calcium_oxalate", composition_confidence |-> confidence,
                         urine_24hr_results |-> p]
    /\ perception = [outcome |-> "pending", output |-> EmptyDict]
    /\ visited = <<"ct_analysis", "stone_modeling", "treatment_decision">>
    /\ request = NoRequest
    /\ db = NoTables
    /\ refreshed = EmptyDict
    /\ rerun_visited = <<>>
    /\ ops = 0

Integrate ==
    /\ pc = "lab_integration"
    /\ visited' = Append(visited, "lab_integration")
    /\ state' = lab_integration_node(state)
    /\ pc' = "integrated"
    /\ UNCHANGED <<perception, request, db, refreshed, rerun_visited, ops>>

SpecLabInt == InitLabInt /\ [][Integrate]_vars

----------------------------------------------------------------------------
(* Properties *)

StonesOf(st) == IF Has(st, "stones_detected") THEN st["stones_detected"] ELSE <<>>

\* A signal that by itself calls for an emergent response: a stone graded
\* "severe", a stone flagged complete_obstruction, or a scan-wide level of severe
EmergentSignal(st) ==
    \/ \E i \in DOMAIN StonesOf(st) :
          \/ Get(StonesOf(st)[i], "hydronephrosis") = "severe"
          \/ Truthy(StonesOf(st)[i], "complete_obstruction")
    \/ Get(st, "hydronephrosis_level") = "severe"

\* C1: urgency is monotone in severity. For every non-empty stone list, in any
\* order, if some stone carries hydronephrosis "severe" or complete_obstruction,
\* or the scan-wide level is severe, the decision's urgency_level is "emergent";
\* a weaker signal on another stone never lowers it.
C1_UrgencyMonotone ==
    (pc = "decided" /\ StonesOf(state) # <<>> /\ EmergentSignal(state))
        => state["urgency_level"] = "emergent"

MainOrder ==
    <<"ct_analysis", "stone_modeling", "treatment_decision", "lab_integration",
      "prevention_planning", "education_generation", "nudge_scheduling">>

OrderWithoutLabs == SelectSeq(MainOrder, LAMBDA n : n # "lab_integration")

IsPrefix(s, t) == Len(s) <= Len(t) /\ SubSeq(t, 1, Len(s)) = s

\* C2: a run of the compiled workflow enters the stages in the order ct_analysis,
\* stone_modeling, treatment_decision, optionally lab_integration,
\* prevention_planning, education_generation, nudge_scheduling; it enters none
\* twice, skips none but lab_integration, has entered them all when it is at END,
\* and once the perception stage has returned it reaches END.
C2_StageOrder ==
    /\ [](IsPrefix(visited, MainOrder) \/ IsPrefix(visited, OrderWithoutLabs))
    /\ [](pc = "END" => visited \in {MainOrder, OrderWithoutLabs})
    /\ ((pc = "stone_modeling") ~> (pc = "END"))

\* A run that went through lab_integration and stands at END
C2_Witness == pc = "END" /\ visited = MainOrder

\* Either lab payload of the state is non-empty
LabsSupplied(st) ==
    \/ DOMAIN DictOrEmpty(st, "crystallography_results") # {}
    \/ DOMAIN DictOrEmpty(st, "urine_24hr_results") # {}

\* What ct_analysis returned in this run
AsCtAnalysisSet == ct_analysis_node(EmptyDict, perception.output, ScanSpacing)

\* C3: after treatment_decision the workflow enters lab_integration if and only
\* if a lab payload of the state is non-empty; otherwise it goes straight to
\* prevention_planning, and metabolic_risk_factors, predicted_composition and
\* composition_confidence stay as ct_analysis set them.
C3_LabRouting ==
    /\ Len(visited) = 3 =>
          pc = (IF LabsSupplied(state) THEN "lab_integration" ELSE "prevention_planning")
    /\ Len(visited) >= 4 =>
          /\ ("lab_integration" \in Range(visited)) <=> LabsSupplied(state)
          /\ visited[4] = (IF LabsSupplied(state) THEN "lab_integration" ELSE "prevention_planning")
    /\ (Len(visited) >= 3 /\ ~LabsSupplied(state)) =>
          /\ ~Has(state, "metabolic_risk_factors")
          /\ state["predicted_composition"] = AsCtAnalysisSet["predicted_composition"]
          /\ state["composition_confidence"] = AsCtAnalysisSet["composition_confidence"]

\* A run without labs that skipped lab_integration and planned prevention
C3_Witness ==
    /\ pc = "education_generation"
    /\ ~LabsSupplied(state)
    /\ visited = SubSeq(OrderWithoutLabs, 1, 4)

\* C4: the lab-triggered re-run executes the stages of the main workflow without
\* ct_analysis and stone_modeling, in the main workflow's order: treatment_decision,
\* lab_integration, prevention_planning, education_generation, nudge_scheduling.
C4_RerunOrder ==
    rerun_visited # <<>> =>
        rerun_visited = SelectSeq(MainOrder, LAMBDA n : n \notin {"ct_analysis", "stone_modeling"})

\* C5: for the same stones, burden, hydronephrosis level and the same lab
\* payloads, a lab-triggered re-run yields the treatment_recommendation and the
\* urgency_level that the initial run produced with those labs supplied.
C5_RerunIdempotent ==
    (/\ pc = "persisted"
     /\ DOMAIN refreshed # {}
     /\ DictOrEmpty(refreshed, "crystallography_results") = DictOrEmpty(state, "crystallography_results")
     /\ DictOrEmpty(refreshed, "urine_24hr_results") = DictOrEmpty(state, "urine_24hr_results"))
        => /\ refreshed["treatment_recommendation"] = state["treatment_recommendation"]
           /\ refreshed["urgency_level"] = state["urgency_level"]

\* The risk factors the stored analysis reports (in its workflow_state)
RiskFactorsOf(analysis) ==
    IF Has(analysis, "workflow_state") /\ Has(analysis["workflow_state"], "metabolic_risk_factors")
    THEN analysis["workflow_state"]["metabolic_risk_factors"]
    ELSE {}

\* C6: metabolic risk factors accumulate. No run or re-run of an analysis ever
\* removes a risk factor that the analysis reported before.
C6_RiskFactorsAccumulate ==
    [][RiskFactorsOf(db.analysis) \subseteq RiskFactorsOf(db'.analysis)]_vars

\* The composition string a crystallography payload carries: the first
\* non-blank one under the accepted keys
LabCompositionText(results) ==
    LET hits == {i \in DOMAIN COMPOSITION_KEYS :
                    Has(results, COMPOSITION_KEYS[i]) /\ ~Blank(results[COMPOSITION_KEYS[i]])}
    IN  results[COMPOSITION_KEYS[CHOOSE i \in hits : \A j \in hits : i <= j]]

\* C7: for every crystallography payload the validator accepts, lab_integration
\* replaces predicted_composition by the payload's composition and sets
\* composition_confidence to max(prior, 0.9).
C7_CrystallographyOverrides ==
    [][(pc = "lab_integration" /\ Has(state, "crystallography_results")) =>
          /\ state'["predicted_composition"]
                = normalize_composition(LabCompositionText(state["crystallography_results"]))
          /\ state'["predicted_composition"] # STONE_TYPE_UNKNOWN
          /\ state'["composition_confidence"] = Max(state["composition_confidence"], 90)]_vars

\* The threshold rules on the fields of a urine payload; a missing field gives no flag
ThresholdFlags(u) ==
    (IF Has(u, "calcium_mg_day") /\ u["calcium_mg_day"] > 250 THEN {"hypercalciuria"} ELSE {})
    \cup (IF Has(u, "citrate_mg_day") /\ u["citrate_mg_day"] < 320 THEN {"hypocitraturia"} ELSE {})
    \cup (IF Has(u, "uric_acid_mg_day") /\ u["uric_acid_mg_day"] > 750 THEN {"hyperuricosuria"} ELSE {})
    \cup (IF Has(u, "ph") /\ u["ph"] < 55 THEN {"acidic_urine"} ELSE {})
    \cup (IF Has(u, "ph") /\ u["ph"] > 68 THEN {"alkaline_urine"} ELSE {})
    \cup (IF Has(u, "volume_ml_day") /\ u["volume_ml_day"] < 2000 THEN {"low_urine_volume"} ELSE {})
    \cup (IF Has(u, "oxalate_mg_day") /\ u["oxalate_mg_day"] > 40 THEN {"hyperoxaluria"} ELSE {})
    \cup (IF Has(u, "sodium_mg_day") /\ u["sodium_mg_day"] > 2300 THEN {"hypernatriuria"} ELSE {})

\* C8: for every urine payload the validator accepts (values of 0 and values on
\* a threshold included) and an empty prior risk set, lab_integration yields
\* exactly the flags of the threshold rules; scenario D yields exactly
\* hypercalciuria, hypocitraturia and acidic_urine.
C8_UrineFlagsExact ==
    (pc = "integrated" /\ Has(state, "urine_24hr_results")) =>
        /\ state["metabolic_risk_factors"] = ThresholdFlags(state["urine_24hr_results"])
        /\ state["urine_24hr_results"] = UrineD =>
              state["metabolic_risk_factors"] = {"hypercalciuria", "hypocitraturia", "acidic_urine"}

\* Each lab payload of the state passes the validator of the type it was fetched under
LabsValidated(st) ==
    /\ Has(st, "crystallography_results") =>
          validate_lab_results("crystallography", st["crystallography_results"])
    /\ Has(st, "urine_24hr_results") =>
          validate_lab_results("urine_24hr", st["urine_24hr_results"])

\* C9: after any sequence of lab POST and PATCH requests, the payloads handed to
\* the workflow or to refresh_analysis_with_labs (and so to lab_integration_node)
\* pass validate_lab_results for the type under which they were fetched.
C9_OnlyValidatedLabsIntegrated ==
    /\ pc \in Range(MainOrder) => LabsValidated(state)
    /\ LabsValidated(refreshed)

\* C10: when the perception call raises, times out or returns output that cannot
\* be parsed, no exception leaves ct_analysis_node: the run goes on with an
\* empty stone list.
C10_PerceptionFailureDegrades ==
    perception.outcome \in {"http_error", "timeout", "unparseable"} =>
        /\ pc # "failed"
        /\ StonesOf(state) = <<>>
        /\ Has(state, "stones_detected")

----------------------------------------------------------------------------
(* Output normaliser over values of any JSON type: ct_normalization.py.    *)
(* A value is a record: kind "none" (null), "num" (a number), "numstr" (a  *)
(* string that float() parses, num is its value), "text" (any other        *)
(* string, none of them bracketed), "vec" (a list of numbers), "badvec" (a *)
(* list whose member at index num is a string float() rejects; vec holds   *)
(* the list with 0 at that place), "bboxdict" (a dict with the six keys    *)
(* x_min, y_min, z_min, x_max, y_max, z_max bound to numbers; vec holds    *)
(* them in that order). No coordinate value is a dict.                     *)

NoneVal == [kind |-> "none", num |-> 0, vec |-> <<>>]

NumVal(n) == [kind |-> "num", num |-> n, vec |-> <<>>]

NumStrVal(n) == [kind |-> "numstr", num |-> n, vec |-> <<>>]

TextVal == [kind |-> "text", num |-> 0, vec |-> <<>>]

VecVal(v) == [kind |-> "vec", num |-> 0, vec |-> v]

BadVecVal(v, i) == [kind |-> "badvec", num |-> i, vec |-> v]

BboxDictVal(b) == [kind |-> "bboxdict", num |-> 0, vec |-> b]

\* An item of the stone list that is not a dict
NotADict == [not_a_dict |-> TextVal]

IsDict(item) == ~Has(item, "not_a_dict")

\* _parse_float: [ok, num], ok FALSE for None
ParseFloat(value) ==
    IF value.kind \in {"num", "numstr"} THEN [ok |-> TRUE, num |-> value.num]
    ELSE [ok |-> FALSE, num |-> 0]

\* _parse_vector: [ok, vec], ok FALSE for None
ParseVector(value) ==
    IF value.kind = "vec" THEN [ok |-> TRUE, vec |-> value.vec]
    ELSE [ok |-> FALSE, vec |-> <<>>]

\* _first_value: the value of the first key present with a value other than None
FirstValue(stone, keys) ==
    LET hits == {i \in DOMAIN keys : Has(stone, keys[i]) /\ stone[keys[i]].kind # "none"} IN
    IF hits = {} THEN NoneVal ELSE stone[keys[CHOOSE i \in hits : \A j \in hits : i <= j]]

\* The declared fields of CTStone, with the kinds of value each annotation accepts
CTStoneFields ==
    [size_mm |-> {"num", "numstr"}, size_voxels |-> {"num", "numstr"},
     hounsfield_units |-> {"num", "numstr"},
     location |-> {"text", "numstr"}, shape |-> {"text", "numstr"},
     hydronephrosis |-> {"text", "numstr"},
     location_coords |-> {"vec"}, dimensions_mm |-> {"vec"},
     dimensions_voxels |-> {"vec"}, bbox_voxels |-> {"vec"}]

\* CTStone.model_validate accepts the entry: a float field takes a number or a
\* numeric string, a str field a string, a list[float] field a list of numbers;
\* None is accepted everywhere and other keys are extras, kept unvalidated.
CTStoneValidates(item) ==
    \A k \in DOMAIN item :
        \/ item[k].kind = "none"
        \/ k \notin DOMAIN CTStoneFields
        \/ item[k].kind \in CTStoneFields[k]

\* {**item, **stone_model.model_dump(exclude_none=True)}: validated floats replace numeric strings
CTStoneDump(item) ==
    [k \in DOMAIN item |->
        IF k \in {"size_mm", "size_voxels", "hounsfield_units"} /\ item[k].kind = "numstr" THEN NumVal(item[k].num) ELSE item[k]]

\* _normalize_location_coords: [raised, stone]; float() of a member raises ValueError
NormalizeLocationCoords(stone) ==
    LET keys == <<"coords", "coordinates", "location_coordinates", "center_coords", "centroid">>
        hits == {i \in DOMAIN keys : Has(stone, keys[i]) /\ stone[keys[i]].kind \in {"vec", "badvec"}}
        value == stone[keys[CHOOSE i \in hits : \A j \in hits : i <= j]]
    IN  IF Has(stone, "location_coords") \/ hits = {} THEN [raised |-> FALSE, stone |-> stone]
        ELSE IF value.kind = "badvec" /\ value.num <= 3 THEN [raised |-> TRUE, stone |-> stone]
        ELSE [raised |-> FALSE,
              stone |-> Put(stone, "location_coords",
                            VecVal(SubSeq(value.vec, 1, Min(3, Len(value.vec)))))]

\* _normalize_hounsfield
NormalizeHounsfield(stone) ==
    LET parsed == ParseFloat(FirstValue(stone, <<"hounsfield_units", "hu">>)) IN
    IF parsed.ok THEN Put(stone, "hounsfield_units", NumVal(parsed.num)) ELSE stone

\* The keys _normalize_sizes reads for each stage of the chain, in the order it tries them
SizeKeys ==
    [mm |-> <<"size_mm", "diameter_mm", "max_diameter_mm", "max_dimension_mm">>,
     dims_mm |-> <<"dimensions_mm", "dims_mm", "dimensions">>,
     voxels |-> <<"size_voxels", "size_px", "max_dimension_voxels", "max_dimension_px">>,
     dims_voxels |-> <<"dimensions_voxels", "dimensions_px", "dims_voxels", "dims_px">>,
     bbox |-> <<"bbox_voxels", "bbox_px", "bounding_box_voxels", "bounding_box_px", "bbox">>]

\* The stages of _normalize_sizes over typed values; each yields [found, size, stone].

ResolveFromMm(stone, size_mm, dims_mm) ==
    LET s0 == IF dims_mm.ok /\ dims_mm.vec # <<>>
              THEN Put(stone, "dimensions_mm", VecVal(dims_mm.vec)) ELSE stone
    IN  IF size_mm.ok THEN [found |-> TRUE, size |-> size_mm.num, stone |-> s0]
        ELSE IF dims_mm.ok /\ dims_mm.vec # <<>>
        THEN [found |-> TRUE, size |-> MaxOfSeq(dims_mm.vec), stone |-> s0]
        ELSE [found |-> FALSE, size |-> 0, stone |-> s0]

ResolveFromVoxels(prev, size_voxels, spacing) ==
    IF ~prev.found /\ size_voxels.ok /\ size_voxels.num # 0
    THEN [prev EXCEPT !.found = TRUE, !.size = size_voxels.num * MaxOfSeq(spacing)]
    ELSE prev

ResolveFromDimensionVoxels(prev, dims_vox, spacing) ==
    IF ~prev.found /\ dims_vox.ok /\ dims_vox.vec # <<>>
    THEN [found |-> TRUE, size |-> MaxOfSeq(voxels_to_mm(dims_vox.vec, spacing)),
          stone |-> Put(prev.stone, "dimensions_mm", VecVal(voxels_to_mm(dims_vox.vec, spacing)))]
    ELSE prev

BboxExtent(b) == <<b[4] - b[1], b[5] - b[2], b[6] - b[3]>>

ResolveFromBbox(prev, bbox_vox, spacing) ==
    IF ~prev.found /\ bbox_vox.ok /\ Len(bbox_vox.vec) >= 6
    THEN [found |-> TRUE, size |-> MaxOfSeq(voxels_to_mm(BboxExtent(bbox_vox.vec), spacing)),
          stone |-> Put(prev.stone, "dimensions_mm",
                        VecVal(voxels_to_mm(BboxExtent(bbox_vox.vec), spacing)))]
    ELSE prev

ResolvedStone(stage) ==
    IF stage.found THEN Put(stage.stone, "size_mm", NumVal(stage.size)) ELSE stage.stone

\* _normalize_sizes
NormalizeSizes(stone, spacing) ==
    ResolvedStone(
        ResolveFromBbox(
            ResolveFromDimensionVoxels(
                ResolveFromVoxels(
                    ResolveFromMm(stone, ParseFloat(FirstValue(stone, SizeKeys.mm)),
                                  ParseVector(FirstValue(stone, SizeKeys.dims_mm))),
                    ParseFloat(FirstValue(stone, SizeKeys.voxels)), spacing),
                ParseVector(FirstValue(stone, SizeKeys.dims_voxels)), spacing),
            ParseVector(FirstValue(stone, SizeKeys.bbox)), spacing))

\* _normalize_stone_fields after the first CTStone.model_validate: [raised, stone]
NormalizeStoneFields(coords, spacing) ==
    IF coords.raised THEN coords
    ELSE [raised |-> FALSE, stone |-> NormalizeSizes(NormalizeHounsfield(coords.stone), spacing)]

\* A bounding-box dict under key becomes the list _bbox_dict_to_list builds
\* from it, [x_min, y_min, z_min, x_max, y_max, z_max], under bbox_voxels
DictToBbox(result, key) ==
    IF Has(result, key) /\ result[key].kind = "bboxdict"
    THEN Put(Drop(result, key), "bbox_voxels", VecVal(result[key].vec))
    ELSE result

\* _preprocess_stone_fields
PreprocessStoneFields(stone) ==
    DictToBbox(DictToBbox(DictToBbox(stone, "size_voxels"), "dimensions_voxels"), "bbox_voxels")

\* The loop body of normalize_ct_output after _preprocess_stone_fields: [raised, stone]
NormalizePreprocessed(item, spacing) ==
    IF ~CTStoneValidates(item) THEN [raised |-> TRUE, stone |-> item]
    ELSE NormalizeStoneFields(NormalizeLocationCoords(CTStoneDump(item)), spacing)

\* One pass of the loop of normalize_ct_output over a dict item: [raised, stone]
NormalizeItem(item, spacing) == NormalizePreprocessed(PreprocessStoneFields(item), spacing)

\* A raw perception output: form "dict" (a payload whose stones_key, if not
\* "none", holds the list items), "list" (a bare list of items),
\* "payload_list" (a list whose first item is a payload holding items under
\* "stones" or "stones_detected"), "number" (a bare number) or "garbage"
\* (text that is not JSON); text says the value arrives as a JSON string.
RawOutput(form, text, stones_key, items) ==
    [form |-> form, text |-> text, stones_key |-> stones_key, items |-> items]

\* json.loads of the text, when the text is JSON
JsonLoads(raw) == [raw EXCEPT !.text = FALSE]

\* _coerce_payload followed by the stones lookup of normalize_ct_output: stones_raw as a list
StonesRaw(raw) ==
    LET parsed == IF raw.text THEN JsonLoads(raw) ELSE raw IN
    IF raw.form = "garbage" \/ parsed.form = "number" THEN <<>>
    ELSE IF parsed.form = "dict"
    THEN (IF parsed.stones_key \in {"stones", "stones_detected", "findings"} THEN parsed.items
          ELSE <<>>)
    ELSE IF parsed.form = "payload_list" THEN parsed.items
    ELSE IF parsed.items # <<>> /\ IsDict(parsed.items[1]) THEN parsed.items
    ELSE <<>>

\* normalize_ct_output over typed values: [raised, stones]; an exception from
\* any item leaves the function, nothing in it or in ct_analysis_node catches it
NormalizeCtOutput(raw, spacing) ==
    LET stones_raw == StonesRaw(raw)
        dicts == SelectSeq(stones_raw, IsDict)
        results == [i \in DOMAIN dicts |-> NormalizeItem(dicts[i], spacing)]
    IN  IF \E i \in DOMAIN results : results[i].raised \/ ~CTStoneValidates(results[i].stone)
        THEN [raised |-> TRUE, stones |-> <<>>]
        ELSE [raised |-> FALSE, stones |-> [i \in DOMAIN results |-> results[i].stone]]

----------------------------------------------------------------------------
(* The normaliser on its own: every raw output built from RawStones.       *)

\* Stone entries as a perception model can send them
RawStones ==
    {[location |-> TextVal, size_mm |-> NumVal(6), hounsfield_units |-> NumVal(950)],
     [size_mm |-> NumStrVal(12), hu |-> NumStrVal(400)],
     [size_mm |-> NumVal(0)],
     [size_mm |-> TextVal],
     [size_mm |-> NumVal(7), dimensions_mm |-> VecVal(<<9, 4, 2>>), size_voxels |-> NumVal(5)],
     [diameter_mm |-> TextVal, max_diameter_mm |-> NumVal(12)],
     [diameter_mm |-> TextVal],
     [dimensions_mm |-> VecVal(<<3, 8, 5>>), bbox_voxels |-> VecVal(<<0, 0, 0, 9, 9, 9>>)],
     [dims_mm |-> BadVecVal(<<3, 0>>, 2)],
     [size_voxels |-> NumVal(4), dimensions_voxels |-> VecVal(<<1, 20, 2>>)],
     [size_voxels |-> NumVal(0)],
     [size_voxels |-> NumVal(0), dimensions_voxels |-> VecVal(<<2, 6, 4>>)],
     [size_px |-> TextVal],
     [dimensions_voxels |-> VecVal(<<2, 6, 4>>)],
     [dimensions_voxels |-> VecVal(<<1, 5>>)],
     [dimensions_voxels |-> VecVal(<<>>), bbox_voxels |-> VecVal(<<1, 1, 1, 3, 8, 4>>)],
     [bbox_voxels |-> VecVal(<<1, 1, 1, 3, 8, 4>>)],
     [bbox_voxels |-> VecVal(<<1, 1, 3, 8>>)],
     [location |-> NumVal(3), size_mm |-> NumVal(5)],
     [hydronephrosis |-> NumVal(1), size_mm |-> NumVal(5)],
     [hounsfield_units |-> TextVal, size_mm |-> NumVal(5)],
     [coords |-> VecVal(<<10, 20, 30, 40>>), size_mm |-> NumVal(5)],
     [coords |-> BadVecVal(<<10, 0, 30>>, 2), size_mm |-> NumVal(5)],
     [location_coords |-> BadVecVal(<<10, 0, 30>>, 2), size_mm |-> NumVal(5)],
     [location |-> TextVal, hounsfield_units |-> NoneVal],
     [shape |-> NoneVal, size_px |-> TextVal],
     [bbox_voxels |-> BboxDictVal(<<0, 0, 0, 9, 2, 1>>)],
     [size_voxels |-> BboxDictVal(<<2, 2, 2, 4, 4, 4>>)],
     EmptyDict}

\* Raw outputs of every form, over every list of up to MaxRawStones entries
\* and over lists holding an item that is no dict
RawOutputs ==
    LET RawStoneLists ==
            SeqsUpTo(RawStones, MaxRawStones)
                \cup {<<NotADict>>, <<NotADict, [size_mm |-> NumVal(5)]>>,
                      <<[size_mm |-> NumVal(5)], NotADict>>,
                      <<[bbox_voxels |-> BboxDictVal(<<0, 0, 0, 9, 2, 1>>)],
                        [bbox_voxels |-> VecVal(<<0, 0, 0, 1, 2, 9>>)]>>,
                      <<[bbox_voxels |-> BboxDictVal(<<2, 2, 2, 4, 4, 4>>)],
                        [bbox_voxels |-> VecVal(<<2, 2, 2, 4, 4, 4>>)]>>}
    IN
    {RawOutput("dict", text, key, items) :
        text \in BOOLEAN, key \in {"stones", "stones_detected", "findings"}, items \in RawStoneLists}
    \cup {RawOutput("dict", text, "none", <<>>) : text \in BOOLEAN}
    \cup {RawOutput("list", text, "none", items) : text \in BOOLEAN, items \in RawStoneLists}
    \cup {RawOutput("payload_list", text, key, items) :
            text \in BOOLEAN, key \in {"stones", "stones_detected"}, items \in RawStoneLists}
    \cup {RawOutput("number", TRUE, "none", <<>>), RawOutput("garbage", TRUE, "none", <<>>)}

InitNormalize ==
    /\ pc = "normalize"
    /\ perception \in RawOutputs
    /\ state = [raised |-> FALSE, stones |-> <<>>]
    /\ visited = <<>>
    /\ request = NoRequest
    /\ db = NoTables
    /\ refreshed = EmptyDict
    /\ rerun_visited = <<>>
    /\ ops = 0

Normalize ==
    /\ pc = "normalize"
    /\ state' = NormalizeCtOutput(perception, ScanSpacing)
    /\ pc' = "normalized"
    /\ UNCHANGED <<visited, perception, request, db, refreshed, rerun_visited, ops>>

SpecNormalize == InitNormalize /\ [][Normalize]_vars

\* The stones handed to the normaliser's loop and the stones it returned, when it returned
InputStones == SelectSeq(StonesRaw(perception), IsDict)

Returned == pc = "normalized" /\ ~state.raised

\* C11: normalize_ct_output never raises, and returns a list of stones, for
\* every dict, list of dicts, single-item list or JSON string of one of
\* these, whatever the types of the values inside the stone entries.
C11_NormalizeNeverRaises ==
    pc = "normalized" => ~state.raised /\ Len(state.stones) = Len(InputStones)

\* The entry carries a size-bearing field: some key of the chain with a value other than None
CarriesSize(stone) ==
    \E f \in DOMAIN SizeKeys : FirstValue(stone, SizeKeys[f]).kind # "none"

\* C12: every returned stone has a non-null size_mm whenever its input entry
\* carried a size-bearing field, also when that value is 0, unparseable or a
\* bounding box of fewer than 6 values.
C12_SizeWheneverSizeField ==
    Returned =>
        \A i \in DOMAIN state.stones :
            CarriesSize(InputStones[i]) =>
                Has(state.stones[i], "size_mm") /\ state.stones[i]["size_mm"].kind = "num"

\* The chain as stated: the first field class that is present and parseable
\* decides, each voxel length scaled by the spacing of its own axis.
PerAxisMax(dims_vox, spacing) ==
    MaxOver({dims_vox[i] * spacing[i] : i \in DOMAIN dims_vox \cap DOMAIN spacing})

PriorityChainSize(stone, spacing) ==
    LET size_mm == ParseFloat(FirstValue(stone, SizeKeys.mm))
        dims_mm == ParseVector(FirstValue(stone, SizeKeys.dims_mm))
        size_voxels == ParseFloat(FirstValue(stone, SizeKeys.voxels))
        dims_vox == ParseVector(FirstValue(stone, SizeKeys.dims_voxels))
        bbox_vox == ParseVector(FirstValue(stone, SizeKeys.bbox))
    IN  IF size_mm.ok THEN [found |-> TRUE, size |-> size_mm.num]
        ELSE IF dims_mm.ok /\ dims_mm.vec # <<>>
        THEN [found |-> TRUE, size |-> MaxOfSeq(dims_mm.vec)]
        ELSE IF size_voxels.ok
        THEN [found |-> TRUE, size |-> size_voxels.num * MaxOfSeq(spacing)]
        ELSE IF dims_vox.ok /\ dims_vox.vec # <<>>
        THEN [found |-> TRUE, size |-> PerAxisMax(dims_vox.vec, spacing)]
        ELSE IF bbox_vox.ok /\ Len(bbox_vox.vec) >= 6
        THEN [found |-> TRUE, size |-> PerAxisMax(BboxExtent(bbox_vox.vec), spacing)]
        ELSE [found |-> FALSE, size |-> 0]

\* C20: size_mm is the value of the strict priority chain (explicit mm size,
\* largest mm dimension, voxel size times the largest spacing, largest voxel
\* dimension each scaled by its own axis, largest bounding-box extent each
\* scaled by its own axis); a lower-priority field never changes size_mm
\* when a higher-priority field is present and parseable.
C20_SizePriorityChain ==
    Returned =>
        \A i \in DOMAIN state.stones :
            PriorityChainSize(InputStones[i], ScanSpacing).found =>
                /\ Has(state.stones[i], "size_mm")
                /\ state.stones[i]["size_mm"] = NumVal(PriorityChainSize(InputStones[i], ScanSpacing).size)

----------------------------------------------------------------------------
(* The treatment rules, on the states treatment_decision_node returns *)

Decided == pc = "decided" /\ StonesOf(state) # <<>>

HasUreteralStone(st) ==
    \E i \in DOMAIN StonesOf(st) :
        normalize_location(Get(StonesOf(st)[i], "location")) \in {"proximal_ureter", "distal_ureter"}

ModerateOrSevere(st) == Get(st, "hydronephrosis_level") \in {"moderate", "severe"}

HasStaghornShape(st) ==
    \E i \in DOMAIN StonesOf(st) : "staghorn" \in Words(Get(StonesOf(st)[i], "shape"))

\* C13: whenever some stone's normalized location is ureteral and the
\* scan-wide hydronephrosis level is moderate or severe, the treatment is
\* "ureteroscopy", whatever the shapes, composition, stone count, sizes and
\* total burden are.
C13_UreteralWithHydronephrosis ==
    (Decided /\ HasUreteralStone(state) /\ ModerateOrSevere(state))
        => state["treatment_recommendation"] = "ureteroscopy"

\* Rule 1 decides although a staghorn stone, a struvite composition and a
\* burden of 20 mm sphere-equivalent are all present
C13_Witness ==
    /\ Decided /\ HasUreteralStone(state) /\ ModerateOrSevere(state)
    /\ HasStaghornShape(state)
    /\ state["predicted_composition"] = "struvite"
    /\ GetNum(state, "total_stone_burden_mm3") >= 4189
    /\ state["treatment_recommendation"] = "ureteroscopy"

Rule1Applies(st) == HasUreteralStone(st) /\ ModerateOrSevere(st)

\* C14: when rule 1 does not apply, a stone whose shape contains "staghorn"
\* makes the treatment "pcnl" for every composition, size and burden; so does
\* a single 15 mm staghorn stone with crystallography "struvite", whatever
\* composition its Hounsfield value predicts.
C14_StaghornGetsPcnl ==
    (Decided /\ ~Rule1Applies(state) /\ HasStaghornShape(state))
        => state["treatment_recommendation"] = "pcnl"

\* Scenario C: one 15 mm staghorn stone whose density predicts uric acid,
\* crystallography reporting struvite
C14_Witness ==
    /\ Decided /\ Len(StonesOf(state)) = 1 /\ HasStaghornShape(state)
    /\ stone_size_mm(StonesOf(state)[1]) = 15
    /\ StonesOf(state)[1]["predicted_composition"] = "uric_acid"
    /\ state["predicted_composition"] = "struvite"
    /\ state["treatment_recommendation"] = "pcnl"

BurdenOf(st) == GetNum(st, "total_stone_burden_mm3")

\* 6 V >= 8000 pi
BurdenOfSphere20(st) == 6 * BurdenOf(st) * PiDen >= 8000 * PiNum

Rule2Applies(st) ==
    \/ HasStaghornShape(st)
    \/ /\ st["predicted_composition"] = "struvite"
       /\ \/ \E i \in DOMAIN StonesOf(st) : stone_size_mm(StonesOf(st)[i]) >= 10
          \/ BurdenOfSphere20(st)

\* C15: when rules 1 and 2 do not apply, the treatment is "pcnl" whenever the
\* sphere-equivalent diameter of the total burden is at least 20 mm, that is
\* 6 V >= 8000 pi, whatever the sizes and locations of the stones; a burden of
\* 4189 mm3 gives PCNL.
C15_BurdenOf20mmGetsPcnl ==
    (Decided /\ ~Rule1Applies(state) /\ ~Rule2Applies(state) /\ BurdenOfSphere20(state))
        => state["treatment_recommendation"] = "pcnl"

\* A burden of exactly 4189 mm3 on stones that are all smaller than 10 mm
C15_Witness ==
    /\ Decided /\ ~Rule1Applies(state) /\ ~Rule2Applies(state)
    /\ BurdenOf(state) = 4189
    /\ \A i \in DOMAIN StonesOf(state) : stone_size_mm(StonesOf(state)[i]) < 10
    /\ state["treatment_recommendation"] = "pcnl"

MaxSizeOf(st) == MaxOver({stone_size_mm(StonesOf(st)[i]) : i \in DOMAIN StonesOf(st)})

\* No ureteral stone and none of the rules before the renal size bands matched
RenalBranch(st) ==
    /\ ~HasUreteralStone(st)
    /\ ~Rule2Applies(st)
    /\ ~BurdenOfSphere20(st)
    /\ ~(Len(StonesOf(st)) >= 3 /\ 6 * BurdenOf(st) * PiDen >= 3375 * PiNum)

\* C16: in the renal branch the composition override covers its whole stated
\* range: uric_acid with a largest stone below 15 mm gives medical_expulsive,
\* stones of 10 mm up to 15 mm included, and struvite with a largest stone
\* above 10 mm gives pcnl.
C16_CompositionOverrideRange ==
    (Decided /\ RenalBranch(state)) =>
        /\ (state["predicted_composition"] = "uric_acid" /\ MaxSizeOf(state) < 15)
                => state["treatment_recommendation"] = "medical_expulsive"
        /\ (state["predicted_composition"] = "struvite" /\ MaxSizeOf(state) > 10)
                => state["treatment_recommendation"] = "pcnl"

\* The size bands as stated, for a ureteral stone of the given size
UreteralBand(size_mm, distal) ==
    IF size_mm < 5 THEN (IF distal THEN "medical_expulsive" ELSE "observation")
    ELSE IF size_mm <= 10 THEN (IF distal THEN "medical_expulsive" ELSE "ureteroscopy")
    ELSE "ureteroscopy"

SingleUreteralStone(st) ==
    /\ Len(StonesOf(st)) = 1
    /\ HasUreteralStone(st)
    /\ ~ModerateOrSevere(st)
    /\ ~Rule2Applies(st)
    /\ ~BurdenOfSphere20(st)

ScenarioA ==
    /\ Decided
    /\ perception.output.stones =
           <<[location |-> "kidney_lower", size_mm |-> 6, hounsfield_units |-> 950]>>
    /\ ~Has(state, "crystallography_results")
    /\ BurdenOf(state) = estimate_stone_volume_mm3(StonesOf(state)[1])

DecisionInputs(st) ==
    [k \in DOMAIN st \cap {"stones_detected", "predicted_composition",
                           "total_stone_burden_mm3", "hydronephrosis_level"} |-> st[k]]

DecisionOutputs(st) ==
    <<st["treatment_recommendation"], st["treatment_rationale"], st["urgency_level"]>>

----------------------------------------------------------------------------
(* The two nodes that read the scan, on their own: ct_analysis_node on a  *)
(* perception output drawn from ScanStones, then stone_modeling_node with *)
(* the masks segmentation finds on that scan (perception.masks).          *)

ScanStones ==
    {[location |-> "kidney_upper", size_mm |-> 5, hounsfield_units |-> 499],
     [location |-> "kidney_upper", size_mm |-> 5, hounsfield_units |-> 500],
     [location |-> "kidney_upper", size_mm |-> 5, hounsfield_units |-> 699],
     [location |-> "kidney_upper", size_mm |-> 5, hu |-> 700],
     [location |-> "kidney_upper", size_mm |-> 5, hounsfield_units |-> 999],
     [location |-> "kidney_upper", size_mm |-> 5, hounsfield_units |-> 1000],
     [location |-> "kidney_lower", size_mm |-> 9, hounsfield_units |-> 400, predicted_composition |-> "struvite"],
     [location |-> "kidney_lower", dimensions_mm |-> <<3, 8, 5>>],
     [location |-> "kidney_lower", length_mm |-> 6, width_mm |-> 4],
     [location |-> "kidney_lower", length_mm |-> 6, width_mm |-> 4, height_mm |-> 2],
     [location |-> "distal_ureter", size_voxels |-> 0],
     [location |-> "distal_ureter"]}

InitScan ==
    /\ pc = "ct_analysis"
    /\ \E l \in SeqsUpTo(ScanStones, MaxStones) : \E masks \in [DOMAIN l -> MaskVoxels] :
        perception = [outcome |-> "ok", output |-> [stones |-> l], masks |-> masks]
    /\ state = EmptyDict
    /\ visited = <<>>
    /\ request = NoRequest
    /\ db = NoTables
    /\ refreshed = EmptyDict
    /\ rerun_visited = <<>>
    /\ ops = 0

ScanCtAnalysis ==
    /\ pc = "ct_analysis"
    /\ visited' = Append(visited, "ct_analysis")
    /\ state' = ct_analysis_node(state, perception.output, ScanSpacing)
    /\ pc' = "stone_modeling"
    /\ UNCHANGED <<perception, request, db, refreshed, rerun_visited, ops>>

ScanStoneModeling ==
    /\ pc = "stone_modeling"
    /\ visited' = Append(visited, "stone_modeling")
    /\ state' = stone_modeling_node(state, perception.masks, ScanSpacing)
    /\ pc' = "modelled"
    /\ UNCHANGED <<perception, request, db, refreshed, rerun_visited, ops>>

SpecScan == InitScan /\ [][ScanCtAnalysis \/ ScanStoneModeling]_vars

\* The stone entries the perception returned, and the bands as stated
ScannedStones == perception.output.stones

HuBand(hu) ==
    IF hu < 500 THEN "uric_acid"
    ELSE IF hu < 700 THEN "cystine"
    ELSE IF hu < 1000 THEN "calcium_oxalate"
    ELSE "calcium_phosphate"

ReportedHu(stone) ==
    IF Has(stone, "hounsfield_units") THEN stone["hounsfield_units"] ELSE GetNum(stone, "hu")

GotMask(i) == perception.masks[i] > 0

\* The sum of volume_mm3 over the stones that have one
SumOfVolumes(stones) ==
    SumSeq([i \in DOMAIN stones |-> IF Has(stones[i], "volume_mm3") THEN stones[i]["volume_mm3"] ELSE 0])

\* C22: after stone_modeling the total burden is the sum of volume_mm3 over
\* exactly the enriched stones that have a volume; every input stone appears
\* once, in order, tagged thresholding if and only if it received a mask and
\* approximate otherwise; the burden is null when there is no stone.
C22_BurdenIsSumOfVolumes ==
    pc = "modelled" =>
        IF ScannedStones = <<>> THEN ~Has(state, "total_stone_burden_mm3")
        ELSE /\ state["total_stone_burden_mm3"] = SumOfVolumes(StonesOf(state))
             /\ Len(StonesOf(state)) = Len(ScannedStones)
             /\ \A i \in DOMAIN ScannedStones :
                    /\ StonesOf(state)[i]["location"] = ScannedStones[i]["location"]
                    /\ \A k \in DOMAIN ScannedStones[i] :
                            StonesOf(state)[i][k] = ScannedStones[i][k]
                    /\ StonesOf(state)[i]["segmentation_method"] =
                            IF GotMask(i) THEN "thresholding" ELSE "approximate"

\* A segmented stone, and a stone with no volume at all next to an approximated one
C22_Witness ==
    /\ pc = "modelled" /\ Len(StonesOf(state)) = 2
    /\ ~Has(StonesOf(state)[1], "volume_mm3")
    /\ ~GotMask(2) /\ Has(StonesOf(state)[2], "volume_mm3")
    /\ state["total_stone_burden_mm3"] = StonesOf(state)[2]["volume_mm3"]

\* The volume the reported dimensions give, as stated: three positive
\* dimensions the full ellipsoid, two dimensions an ellipsoid with the smaller
\* as third axis, a scalar size alone the sphere (NoneNum: nothing reported)
VolumeFromReported(stone) ==
    IF Has(stone, "dimensions_mm") /\ Len(stone["dimensions_mm"]) >= 3
    THEN EllipsoidVolume(stone["dimensions_mm"][1], stone["dimensions_mm"][2], stone["dimensions_mm"][3])
    ELSE IF Has(stone, "length_mm") /\ Has(stone, "width_mm") /\ Has(stone, "height_mm")
    THEN EllipsoidVolume(stone["length_mm"], stone["width_mm"], stone["height_mm"])
    ELSE IF Has(stone, "length_mm") /\ Has(stone, "width_mm")
    THEN EllipsoidVolume(stone["length_mm"], stone["width_mm"],
                         Min(stone["length_mm"], stone["width_mm"]))
    ELSE IF Has(stone, "size_mm") /\ stone["size_mm"] > 0
    THEN EllipsoidVolume(stone["size_mm"], stone["size_mm"], stone["size_mm"])
    ELSE NoneNum

\* C23: without a mask the volume follows the reported dimensions: the sphere
\* for a scalar size alone, the ellipsoid with the smaller dimension as third
\* axis for two dimensions, the full ellipsoid for three positive dimensions,
\* also when normalization derived size_mm as their maximum.
C23_ApproximateVolumeFollowsDimensions ==
    pc = "modelled" =>
        \A i \in DOMAIN ScannedStones :
            (~GotMask(i) /\ VolumeFromReported(ScannedStones[i]) # NoneNum) =>
                /\ Has(StonesOf(state)[i], "volume_mm3")
                /\ StonesOf(state)[i]["volume_mm3"] = VolumeFromReported(ScannedStones[i])

UsableSize(stone) == Has(stone, "size_mm") /\ stone["size_mm"].kind = "num"

UsableLocation(stone) ==
    \/ Has(stone, "location") /\ stone["location"].kind \in {"text", "numstr"}
    \/ Has(stone, "location_coords") /\ stone["location_coords"].kind = "vec"

\* C24: a stone entry with no usable size and no usable location (an empty
\* dict, a dict holding only unparseable values) is not in the list
\* normalize_ct_output returns.
C24_UnusableStoneDropped ==
    Returned => \A i \in DOMAIN state.stones :
                    UsableSize(state.stones[i]) \/ UsableLocation(state.stones[i])

\* The box of a dict x_min..z_max as the list in the prompted order
\* (z_min, y_min, x_min, z_max, y_max, x_max)
PromptedOrder(b) == <<b[3], b[2], b[1], b[6], b[5], b[4]>>

SameBox(dict_stone, list_stone) ==
    /\ DOMAIN dict_stone = {"bbox_voxels"} /\ DOMAIN list_stone = {"bbox_voxels"}
    /\ dict_stone["bbox_voxels"].kind = "bboxdict"
    /\ list_stone["bbox_voxels"] = VecVal(PromptedOrder(dict_stone["bbox_voxels"].vec))

\* C30: a bounding box given as a dict with x_min..z_max keys and the same
\* box given as a 6-value list in the prompted (z, y, x) order resolve to the
\* same size_mm and the same per-axis dimensions_mm: each axis extent is
\* multiplied by the spacing of that axis.
C30_BboxAxisConsistent ==
    Returned =>
        \A i, j \in DOMAIN state.stones :
            SameBox(InputStones[i], InputStones[j]) =>
                /\ state.stones[i]["size_mm"] = state.stones[j]["size_mm"]
                /\ state.stones[i]["dimensions_mm"] = state.stones[j]["dimensions_mm"]

----------------------------------------------------------------------------
(* Failure of an initial run: ct_analysis.py _run_analysis lines 226-229.  *)

\* The run's workflow raised: in the model, the perception call of ct_analysis
RunRaised == perception.outcome \in {"http_error", "timeout", "unparseable"}

\* No row of any table comes from an analysis run: rows written by _run_analysis
\* after the workflow are the StoneAnalysis, the plans, campaigns and nudges, and
\* lab rows that carry a result_date (explicit payloads) or an analysis_id
NothingPersistedByRun ==
    /\ db.analysis = EmptyDict
    /\ db.plans = <<>>
    /\ db.campaigns = <<>>
    /\ db.nudges = <<>>
    /\ \A i \in DOMAIN db.labs : ~db.labs[i].dated /\ ~db.labs[i].analysis_linked

\* C25: when a workflow stage raises during an initial analysis run, the caller
\* gets one failure (the run ends in "failed") and no StoneAnalysis, lab result,
\* prevention plan, nudge campaign or nudge of that run is in the database.
C25_FailedRunPersistsNothing ==
    RunRaised => pc = "failed" /\ NothingPersistedByRun

\* A failed run whose request carried both explicit lab payloads, with a lab row
\* of an earlier POST /labs/ in the table
C25_Witness ==
    /\ pc = "failed"
    /\ RunRaised
    /\ DOMAIN request.explicit_crystallography # {}
    /\ DOMAIN request.explicit_urine # {}
    /\ db.labs # <<>>

----------------------------------------------------------------------------
(* Voxel spacing of a DICOM series: dicom_processor.py. A slice is the     *)
(* dict of the tags its file carries; lengths and positions are in tenths  *)
(* of a millimetre. A series is the list of its files in path order, the   *)
(* order of _collect_dicom_files.                                          *)

DefaultSpacing == 10

\* load_series sort_key: the position along the axis, else the instance number, else 0
sort_key(ds) ==
    IF Has(ds, "ImagePositionPatient") THEN ds["ImagePositionPatient"]
    ELSE IF Has(ds, "InstanceNumber") THEN ds["InstanceNumber"]
    ELSE 0

\* list.sort(key=sort_key) is stable: a slice goes after the slices whose key is
\* not larger
RECURSIVE InsertSlice(_, _)
InsertSlice(sorted, ds) ==
    IF sorted = <<>> THEN <<ds>>
    ELSE IF sort_key(ds) < sort_key(sorted[Len(sorted)])
         THEN Append(InsertSlice(SubSeq(sorted, 1, Len(sorted) - 1), ds), sorted[Len(sorted)])
         ELSE Append(sorted, ds)

RECURSIVE load_series(_)
load_series(files) ==
    IF files = <<>> THEN <<>>
    ELSE InsertSlice(load_series(SubSeq(files, 1, Len(files) - 1)), files[Len(files)])

\* get_spacing: (z, y, x) from the first two files in path order
get_spacing(dcm_files) ==
    LET first == dcm_files[1]
        pixel_spacing == IF Has(first, "PixelSpacing") THEN first["PixelSpacing"]
                         ELSE <<DefaultSpacing, DefaultSpacing>>
        y_spacing == IF Len(pixel_spacing) > 0 THEN pixel_spacing[1] ELSE DefaultSpacing
        x_spacing == IF Len(pixel_spacing) > 1 THEN pixel_spacing[2] ELSE y_spacing
        thickness == IF Has(first, "SliceThickness") THEN first["SliceThickness"] ELSE 0
        delta == dcm_files[2]["ImagePositionPatient"] - first["ImagePositionPatient"]
        z_spacing == IF thickness = 0 /\ Len(dcm_files) > 1
                        /\ Has(first, "ImagePositionPatient")
                        /\ Has(dcm_files[2], "ImagePositionPatient")
                     THEN IF delta < 0 THEN 0 - delta ELSE delta
                     ELSE thickness
    IN  <<IF z_spacing = 0 THEN DefaultSpacing ELSE z_spacing, y_spacing, x_spacing>>

\* Slices of a series: with or without a position, with or without a thickness
\* (0: a tag that is present and empty of meaning)
DicomSlices ==
    {DictOf([ImagePositionPatient |-> z, SliceThickness |-> t], NoneNum) :
        z \in {NoneNum, 0, 50, 450}, t \in {NoneNum, 0, 25}}

\* PixelSpacing of the first file: absent, empty, one value, two values
PixelSpacingTags == {EmptyDict} \cup {[PixelSpacing |-> ps] : ps \in {<<>>, <<7>>, <<7, 8>>}}

InitSpacing ==
    /\ pc = "get_spacing"
    /\ \E l \in SeqsUpTo(DicomSlices, MaxSlices) \ {<<>>} : \E tag \in PixelSpacingTags :
        perception = [files |-> <<Merge(l[1], tag)>> \o Tail(l)]
    /\ state = [spacing |-> <<>>, volume |-> <<>>]
    /\ visited = <<>>
    /\ request = NoRequest
    /\ db = NoTables
    /\ refreshed = EmptyDict
    /\ rerun_visited = <<>>
    /\ ops = 0

\* ct_analysis_node lines 174-175: the volume and its spacing are read together
LoadCtVolume ==
    /\ pc = "get_spacing"
    /\ state' = [spacing |-> get_spacing(perception.files), volume |-> load_series(perception.files)]
    /\ pc' = "loaded"
    /\ UNCHANGED <<visited, perception, request, db, refreshed, rerun_visited, ops>>

SpecSpacing == InitSpacing /\ [][LoadCtVolume]_vars

\* The through-plane spacing as stated: the thickness get_spacing reads if there
\* is one, else the distance of the first two slices of the stack, else 1.0 mm
StatedThroughPlane(files, stack) ==
    LET delta == stack[2]["ImagePositionPatient"] - stack[1]["ImagePositionPatient"] IN
    IF Has(files[1], "SliceThickness") /\ files[1]["SliceThickness"] # 0
    THEN files[1]["SliceThickness"]
    ELSE IF Len(stack) > 1 /\ Has(stack[1], "ImagePositionPatient")
            /\ Has(stack[2], "ImagePositionPatient") /\ delta # 0
         THEN IF delta < 0 THEN 0 - delta ELSE delta
         ELSE DefaultSpacing

\* C28: get_spacing gives as through-plane spacing the explicit SliceThickness,
\* else the absolute position difference of the first two slices in the order
\* load_series stacks them (by position, not by file name), else 1.0; the three
\* components are strictly positive.
C28_SpacingFollowsStackOrder ==
    pc = "loaded" =>
        /\ state.spacing[1] = StatedThroughPlane(perception.files, state.volume)
        /\ \A i \in 1..3 : state.spacing[i] > 0

----------------------------------------------------------------------------
(* Mesh blob: kidney_stone.py _encode_meshes, analyses.py _decode_mesh_blob. *)
(* An array is a record of its dtype and its rows; the npz archive is the    *)
(* function from member names to arrays, a member name being the pair of   *)
(* its prefix and its index ("v_3" is <<"v", 3>>). Spacing is in tenths of  *)
(* a millimetre, vertex coordinates in hundredths.                          *)

NpArray(dtype, data) == [dtype |-> dtype, data |-> data]

\* json.dumps of a float writes its shortest repr, digits before and after the
\* point; of an int, its digits
DumpFloat(x) == [whole |-> x \div 10, frac |-> x % 10]

LoadFloat(token) == token.whole * 10 + token.frac

\* json.dumps(metadata).encode("utf-8") as uint8, and json.loads of these bytes
JsonDumpsMetadata(metadata) ==
    [version |-> [digits |-> metadata.version],
     spacing_mm |-> [i \in DOMAIN metadata.spacing_mm |-> DumpFloat(metadata.spacing_mm[i])],
     stone_count |-> [digits |-> metadata.stone_count],
     format |-> metadata.format]

JsonLoadsMetadata(text) ==
    [version |-> text.version.digits,
     spacing_mm |-> [i \in DOMAIN text.spacing_mm |-> LoadFloat(text.spacing_mm[i])],
     stone_count |-> text.stone_count.digits,
     format |-> text.format]

\* An encoder that numbers the archive members from 1
encode_meshes_from_one(meshes, spacing) ==
    LET metadata == [version |-> 1, spacing_mm |-> spacing, stone_count |-> Len(meshes), format |-> "npz"]
    IN  [key \in {<<"metadata_json", 0>>} \cup ({"v", "f"} \X (1..Len(meshes))) |->
            IF key[1] = "metadata_json" THEN NpArray("uint8", JsonDumpsMetadata(metadata))
            ELSE IF key[1] = "v" THEN meshes[key[2]].vertices
            ELSE meshes[key[2]].faces]

\* _encode_meshes: metadata_json, then v_idx and f_idx for idx = 0 .. N-1
encode_meshes(meshes, spacing) ==
    LET metadata == [version |-> 1, spacing_mm |-> spacing, stone_count |-> Len(meshes), format |-> "npz"]
    IN  [key \in {<<"metadata_json", 0>>} \cup ({"v", "f"} \X (0..(Len(meshes) - 1))) |->
            IF key[1] = "metadata_json" THEN NpArray("uint8", JsonDumpsMetadata(metadata))
            ELSE IF key[1] = "v" THEN meshes[key[2] + 1].vertices
            ELSE meshes[key[2] + 1].faces]

\* The while loop of _decode_mesh_blob: members v_idx and f_idx from idx on, up
\* to the first idx one of them is missing for; astype(float).tolist() and
\* astype(int).tolist() keep every value (float32 -> float64, int32 -> int)
RECURSIVE DecodeFrom(_, _)
DecodeFrom(data, idx) ==
    IF <<"v", idx>> \notin DOMAIN data \/ <<"f", idx>> \notin DOMAIN data THEN <<>>
    ELSE <<[vertices |-> data[<<"v", idx>>].data, faces |-> data[<<"f", idx>>].data]>>
         \o DecodeFrom(data, idx + 1)

decode_mesh_blob(blob) ==
    [metadata |-> IF <<"metadata_json", 0>> \in DOMAIN blob
                  THEN JsonLoadsMetadata(blob[<<"metadata_json", 0>>].data)
                  ELSE [version |-> 0, spacing_mm |-> <<>>, stone_count |-> 0, format |-> None],
     meshes |-> DecodeFrom(blob, 0)]

\* Meshes of _mask_to_mesh: float32 vertices, int32 faces
StoneMeshes ==
    {[vertices |-> NpArray("float32", v), faces |-> NpArray("int32", f)] :
        v \in {<<<<0, 0, 0>>, <<150, 0, 0>>, <<0, 150, 0>>>>,
               <<<<0, 0, 0>>, <<150, 0, 0>>, <<0, 150, 0>>, <<0, 0, 0 - 75>>>>},
        f \in {<<<<0, 1, 2>>>>, <<<<0, 1, 2>>, <<2, 1, 0>>>>, <<<<2, 1, 0>>>>}}

MeshSpacings == {<<10, 10, 10>>, <<25, 7, 7>>, <<6, 7, 8>>}

InitMesh ==
    /\ pc = "stone_modeling"
    /\ \E l \in SeqsUpTo(StoneMeshes, MaxStones) : \E spacing \in MeshSpacings :
        perception = [meshes |-> l, spacing |-> spacing]
    /\ state = EmptyDict
    /\ visited = <<>>
    /\ request = NoRequest
    /\ db = NoTables
    /\ refreshed = EmptyDict
    /\ rerun_visited = <<>>
    /\ ops = 0

\* stone_modeling_node line 271: a blob only if there is a mesh, else None
StoreMeshBlob ==
    /\ pc = "stone_modeling"
    /\ state' = IF perception.meshes # <<>>
                THEN [stone_3d_model |-> encode_meshes(perception.meshes, perception.spacing)]
                ELSE EmptyDict
    /\ pc' = "stored"
    /\ UNCHANGED <<visited, perception, request, db, refreshed, rerun_visited, ops>>

\* GET /analyses/{id}/mesh (get_analysis_mesh)
GetAnalysisMesh ==
    /\ pc = "stored"
    /\ state' = IF Has(state, "stone_3d_model")
                THEN Put(state, "response", Merge(decode_mesh_blob(state["stone_3d_model"]), [available |-> TRUE]))
                ELSE Put(state, "response", [available |-> FALSE])
    /\ pc' = "served"
    /\ UNCHANGED <<visited, perception, request, db, refreshed, rerun_visited, ops>>

SpecMesh == InitMesh /\ [][StoreMeshBlob \/ GetAnalysisMesh]_vars

\* The rows of the arrays that were packed
PackedRows == [i \in DOMAIN perception.meshes |->
                  [vertices |-> perception.meshes[i].vertices.data,
                   faces |-> perception.meshes[i].faces.data]]

----------------------------------------------------------------------------
(* Per-stone segmentation: kidney_stone.py _coords_to_index and             *)
(* _segment_stone_masks. Coordinates and spacing are in tenths (of a voxel, *)
(* of the volume's extent, of a millimetre), so that 1.0 is 10; an index is *)
(* the triple (z, y, x) and None is the empty tuple.                        *)

\* int(n / d) for d > 0: Python's int() truncates towards zero
Trunc(n, d) == IF n >= 0 THEN n \div d ELSE 0 - ((0 - n) \div d)

InBounds(index, shape) == \A a \in 1..3 : 0 <= index[a] /\ index[a] < shape[a]

\* A conversion that scales a fraction by the extent itself and not by the last index
coords_to_index_fraction_of_shape(coords, shape, spacing) ==
    IF Len(coords) < 3 THEN <<>>
    ELSE
    LET values == SubSeq(coords, 1, 3)
        as_index == <<Trunc(values[3], 10), Trunc(values[2], 10), Trunc(values[1], 10)>>
        scaled(v, sp) == IF sp # 0 THEN Trunc(v, sp) ELSE Trunc(v, 10)
        as_mm == <<scaled(values[3], spacing[1]), scaled(values[2], spacing[2]),
                   scaled(values[1], spacing[3])>>
    IN  IF (\A a \in 1..3 : values[a] <= 10) /\ (\A a \in 1..3 : values[a] >= 0)
        THEN <<Trunc(values[3] * shape[1], 10), Trunc(values[2] * shape[2], 10),
               Trunc(values[1] * shape[3], 10)>>
        ELSE IF InBounds(as_index, shape) THEN as_index
        ELSE IF InBounds(as_mm, shape) THEN as_mm
        ELSE <<>>

\* _coords_to_index: coords is (x, y, z); a fraction of the extent if every value
\* is within 0..1, else a voxel index if that is inside the volume, else
\* millimetres divided by the spacing (a zero spacing divides by nothing)
coords_to_index(coords, shape, spacing) ==
    IF Len(coords) < 3 THEN <<>>
    ELSE
    LET values == SubSeq(coords, 1, 3)
        as_index == <<Trunc(values[3], 10), Trunc(values[2], 10), Trunc(values[1], 10)>>
        scaled(v, sp) == IF sp # 0 THEN Trunc(v, sp) ELSE Trunc(v, 10)
        as_mm == <<scaled(values[3], spacing[1]), scaled(values[2], spacing[2]),
                   scaled(values[1], spacing[3])>>
    IN  IF (\A a \in 1..3 : values[a] <= 10) /\ (\A a \in 1..3 : values[a] >= 0)
        THEN <<Trunc(values[3] * (shape[1] - 1), 10), Trunc(values[2] * (shape[2] - 1), 10),
               Trunc(values[1] * (shape[3] - 1), 10)>>
        ELSE IF InBounds(as_index, shape) THEN as_index
        ELSE IF InBounds(as_mm, shape) THEN as_mm
        ELSE <<>>

\* stone.get("location_coords"): no list, no index
CenterOf(stone, shape, spacing) ==
    IF Has(stone, "location_coords") THEN coords_to_index(stone["location_coords"], shape, spacing)
    ELSE <<>>

\* _segment_stone_masks: per stone "roi" (the mask _segment_roi found around its
\* centre), else None; when no stone got one, the largest components of the
\* thresholded volume go to the first stones. roi[i] tells whether _segment_roi
\* finds a mask around the centre of stone i, components how many components
\* the volume has.
segment_stone_masks(shape, spacing, stones, roi, components) ==
    LET masks == [i \in DOMAIN stones |->
                    IF CenterOf(stones[i], shape, spacing) # <<>> /\ roi[i] THEN "roi" ELSE "none"]
    IN  IF \E i \in DOMAIN stones : masks[i] # "none" THEN masks
        ELSE [i \in DOMAIN stones |-> IF i <= components THEN "component" ELSE "none"]

VolumeShape == <<2, 3, 4>>

VolumeSpacings == {<<10, 10, 10>>, <<25, 25, 25>>, <<0, 5, 25>>}

\* Stones by what location_coords holds: fractions, the value 1.0 on every axis,
\* voxel indices, negative values, values beyond the volume, millimetres, a
\* list that is too short, nothing
SegmentStones ==
    {[location |-> "kidney", size_mm |-> 5, location_coords |-> c] :
        c \in {<<5, 5, 5>>, <<10, 10, 10>>, <<30, 20, 10>>, <<0 - 5, 10, 10>>, <<0 - 20, 10, 10>>,
               <<400, 400, 400>>, <<50, 30, 20>>, <<40, 0, 0>>, <<5, 5>>}}
    \cup {[location |-> "kidney", size_mm |-> 5]}

InitSegment ==
    /\ pc = "stone_modeling"
    /\ \E l \in SeqsUpTo(SegmentStones, MaxStones) \ {<<>>} : \E spacing \in VolumeSpacings :
       \E roi \in [DOMAIN l -> BOOLEAN] : \E components \in {0, Len(l)} :
        perception = [stones |-> l, spacing |-> spacing, roi |-> roi, components |-> components,
                      masks |-> <<>>]
    /\ state = EmptyDict
    /\ visited = <<>>
    /\ request = NoRequest
    /\ db = NoTables
    /\ refreshed = EmptyDict
    /\ rerun_visited = <<>>
    /\ ops = 0

\* stone_modeling_node with its call of _segment_stone_masks (lines 232-235); the
\* masks it got are kept in perception.masks. A mask counts 1500 voxels.
SegmentAndModel ==
    /\ pc = "stone_modeling"
    /\ LET masks == segment_stone_masks(VolumeShape, perception.spacing, perception.stones,
                                        perception.roi, perception.components)
       IN  /\ perception' = [perception EXCEPT !.masks = masks]
           /\ state' = stone_modeling_node([stones_detected |-> perception.stones],
                                           [i \in DOMAIN masks |-> IF masks[i] = "none" THEN 0 ELSE 1500],
                                           ScanSpacing)
    /\ pc' = "modelled"
    /\ UNCHANGED <<visited, request, db, refreshed, rerun_visited, ops>>

SpecSegment == InitSegment /\ [][SegmentAndModel]_vars

\* The index of stone i of the run
CenterOfStone(i) == CenterOf(perception.stones[i], VolumeShape, perception.spacing)

----------------------------------------------------------------------------
(* Two lab-triggered re-runs of one patient in two sessions:                *)
(* lab_refresh.py refresh_analysis_with_labs, one action per commit or      *)
(* query of lines 60-122. No statement takes a lock and every crud call     *)
(* commits on its own, so the statements of two runs served by two workers  *)
(* interleave freely. pc, request and state are per run: request[r] is the  *)
(* lab payloads the handler fetched, state[r] the run's local variables.    *)

RerunRuns == {1, 2}

NoLocals == [st |-> EmptyDict, latest_plan |-> 0, new_plan |-> 0, campaign |-> 0]

\* The analysis row of a first run: the columns ct_analysis_node filled for a scan
\* with one renal stone
FirstAnalysis == ct_analysis_node(EmptyDict, [stones |-> <<StoneRenal12>>], ScanSpacing)

\* The tables a first analysis left: no plan yet, or a plan with its campaign
FirstAnalysisTables ==
    {[NoTables EXCEPT !.analysis = FirstAnalysis],
     [NoTables EXCEPT !.analysis = FirstAnalysis,
                      !.plans = <<[analysis_linked |-> TRUE, active |-> TRUE, superseded_by |-> 0,
                                   fluid_intake_target_ml |-> 2500]>>,
                      !.campaigns = <<[plan_id |-> 1, status |-> "pending_approval"]>>,
                      !.nudges = <<[campaign_id |-> 1, template |-> "welcome"]>>]}

InitRerun ==
    /\ pc = [r \in RerunRuns |-> "workflow"]
    /\ request \in [RerunRuns -> [crystallography : {EmptyDict, Struvite}, urine : {EmptyDict, UrineD}]]
    /\ state = [r \in RerunRuns |-> NoLocals]
    /\ db \in FirstAnalysisTables
    /\ visited = <<>>
    /\ perception = [outcome |-> "pending", output |-> EmptyDict]
    /\ refreshed = EmptyDict
    /\ rerun_visited = <<>>
    /\ ops = 0

\* Lines 31-62: the stages are run and the analysis row is committed
RerunCommitAnalysis(r) ==
    /\ pc[r] = "workflow"
    /\ LET st == RefreshState(db.analysis, request[r].crystallography, request[r].urine) IN
        /\ state' = [state EXCEPT ![r].st = st]
        /\ db' = [db EXCEPT !.analysis = RefreshedAnalysis(db.analysis, st)]
    /\ pc' = [pc EXCEPT ![r] = "get_latest_plan"]
    /\ UNCHANGED <<visited, perception, request, refreshed, rerun_visited, ops>>

\* Line 64
RerunGetLatestPlan(r) ==
    /\ pc[r] = "get_latest_plan"
    /\ state' = [state EXCEPT ![r].latest_plan = get_latest_plan(db.plans)]
    /\ pc' = [pc EXCEPT ![r] = "create_plan"]
    /\ UNCHANGED <<visited, perception, request, db, refreshed, rerun_visited, ops>>

\* Lines 65-76
RerunCreatePlan(r) ==
    /\ pc[r] = "create_plan"
    /\ db' = [db EXCEPT !.plans = Append(@, [analysis_linked |-> TRUE, active |-> TRUE, superseded_by |-> 0,
                                             fluid_intake_target_ml |-> state[r].st["fluid_intake_target_ml"]])]
    /\ state' = [state EXCEPT ![r].new_plan = Len(db.plans) + 1]
    /\ pc' = [pc EXCEPT ![r] = "update_plan"]
    /\ UNCHANGED <<visited, perception, request, refreshed, rerun_visited, ops>>

\* Lines 78-83; create_plan committed, so latest_plan.active is read again from
\* the table (the session expires its objects on commit)
RerunUpdatePlan(r) ==
    /\ pc[r] = "update_plan"
    /\ LET latest_plan == state[r].latest_plan IN
       db' = IF latest_plan # 0 /\ db.plans[latest_plan].active /\ latest_plan # state[r].new_plan
             THEN [db EXCEPT !.plans[latest_plan].active = FALSE,
                             !.plans[latest_plan].superseded_by = state[r].new_plan]
             ELSE db
    /\ pc' = [pc EXCEPT ![r] = "create_campaign"]
    /\ UNCHANGED <<state, visited, perception, request, refreshed, rerun_visited, ops>>

\* Lines 85-100; every scheduled nudge goes by sms
RerunCreateCampaign(r) ==
    /\ pc[r] = "create_campaign"
    /\ LET nudge_schedule == IF DisableScheduledSms THEN <<>> ELSE state[r].st["nudge_schedule"] IN
       IF nudge_schedule = <<>>
       THEN /\ pc' = [pc EXCEPT ![r] = "done"]
            /\ UNCHANGED <<db, state>>
       ELSE /\ db' = [db EXCEPT !.campaigns = Append(@, [plan_id |-> state[r].new_plan,
                                                         status |-> "pending_approval"])]
            /\ state' = [state EXCEPT ![r].campaign = Len(db.campaigns) + 1]
            /\ pc' = [pc EXCEPT ![r] = "pause_others"]
    /\ UNCHANGED <<visited, perception, request, refreshed, rerun_visited, ops>>

\* Lines 102-106
RerunPauseOthers(r) ==
    /\ pc[r] = "pause_others"
    /\ db' = [db EXCEPT !.campaigns = [i \in DOMAIN @ |->
                                         IF i # state[r].campaign THEN [@[i] EXCEPT !.status = "paused"]
                                         ELSE @[i]]]
    /\ pc' = [pc EXCEPT ![r] = "create_nudges"]
    /\ UNCHANGED <<state, visited, perception, request, refreshed, rerun_visited, ops>>

\* Lines 108-122
RerunCreateNudges(r) ==
    /\ pc[r] = "create_nudges"
    /\ LET nudge_schedule == state[r].st["nudge_schedule"] IN
       db' = [db EXCEPT !.nudges = @ \o [i \in DOMAIN nudge_schedule |->
                                           [campaign_id |-> state[r].campaign, template |-> nudge_schedule[i]]]]
    /\ pc' = [pc EXCEPT ![r] = "done"]
    /\ UNCHANGED <<state, visited, perception, request, refreshed, rerun_visited, ops>>

NextRerun ==
    \E r \in RerunRuns :
        \/ RerunCommitAnalysis(r)
        \/ RerunGetLatestPlan(r)
        \/ RerunCreatePlan(r)
        \/ RerunUpdatePlan(r)
        \/ RerunCreateCampaign(r)
        \/ RerunPauseOthers(r)
        \/ RerunCreateNudges(r)

SpecRerun == InitRerun /\ [][NextRerun]_vars

\* C26: two lab-triggered re-runs of one patient whose commits interleave leave
\* what some serial execution leaves: exactly one campaign that is not paused,
\* the one created last, and exactly one active plan, every other plan being
\* inactive with superseded_by set.
C26_ConcurrentRerunsSerializable ==
    (\A r \in RerunRuns : pc[r] = "done") =>
        /\ {i \in DOMAIN db.campaigns : db.campaigns[i].status # "paused"} = {Len(db.campaigns)}
        /\ Cardinality({i \in DOMAIN db.plans : db.plans[i].active}) = 1
        /\ \A i \in DOMAIN db.plans : ~db.plans[i].active => db.plans[i].superseded_by # 0

====
